---- MODULE Spec2Model ----
(***************************************************************************)
(* Model of the position tracker (src/scripts/track_account.py) and of the *)
(* dynamic pair-list service (src/dynamic_pairlist_service.py).            *)
(*                                                                         *)
(* Floats are scaled integers.  Sizes are counted in units of 5e-9, so the *)
(* size threshold 1e-8 is 2 units; leverages are counted in units of 1e-8  *)
(* and entry prices in units of 1e-6, so their thresholds are 1 unit.      *)
(* Optional[float] is a set with at most one element: None is {}.          *)
(***************************************************************************)
EXTENDS Integers, Sequences, FiniteSets, TLC

VARIABLES
    \* ---- PositionTracker ----
    last_positions,     \* self.last_positions: coin -> PositionSnapshot
    current_positions,  \* the snapshot map handed to _detect_changes
    changes,            \* the list _detect_changes returned
    tpc,                \* "call": before the call, "ret": after it returned,
                        \* "raised": after it raised, "down": no process
    payload,            \* the position_data of the last track_positions call
    position_history,   \* self.position_history: coin -> list of snapshots
    changes_log,        \* self.changes_log
    positions_file,     \* positions_history.csv
    last_positions_file,\* last_positions.csv
    changes_file,       \* changes_log.csv
    before,             \* the tracker and its files when the last call began
    incomplete,         \* last_positions is what a failed load left behind
    disk,               \* the writes that failed in the last call, and how
    rounds,             \* how many track_positions calls have been made
    \* ---- DynamicPairListService._get_current_positions ----
    api,                \* what info.user_state() does in this call
    file,               \* last_positions.csv as this call finds it
    fetched,            \* what the call returned, or that it raised
    fpc,                \* "call": before the call, "ret": after it ended
    \* ---- DynamicPairListService and its threads ----
    tracked_pairs,      \* self.tracked_pairs
    current_pairlist,   \* self.current_pairlist
    last_update,        \* self.last_update (None before the first update)
    max_pairs,          \* self.max_pairs
    min_pair_age_hours, \* self.min_pair_age_hours
    clock,              \* datetime.now(), in hours
    pc,                 \* where each refreshing thread is in _update_pairlist
    locals,             \* its current_coins, now and new_pairlist
    rpc,                \* where the reading request is in its handler
    rkind,              \* "pairlist": /pairlist, "stats": /stats
    rnow,               \* the reader's now (get_stats, line 283)
    resp,               \* the payload the reader has built so far
    boundary,           \* the service state when a refresh last began or ended
    seen,               \* the boundary states since the read began
    started,            \* how many refreshes the threads have begun
    reads,              \* how many reading requests have arrived
    \* ---- init_service and __main__ ----
    config,             \* --address and the strategy's ADDRESS_TO_TRACK_TOP
    tracked_address,    \* service.tracked_address (None: no service)
    serving             \* the scheduler runs and the app serves

hvars == <<payload, position_history, changes_log, positions_file,
           last_positions_file, changes_file, before, incomplete, disk,
           rounds>>

tvars == <<last_positions, current_positions, changes, tpc, payload,
           position_history, changes_log, positions_file,
           last_positions_file, changes_file, before, incomplete, disk,
           rounds>>

fvars == <<api, file, fetched, fpc>>

uvars == <<config, tracked_address, serving>>

svars == <<tracked_pairs, current_pairlist, last_update, max_pairs,
           min_pair_age_hours, clock, pc, locals, rpc, rkind, rnow, resp,
           boundary, seen, started, reads, config, tracked_address, serving>>

vars == <<last_positions, current_positions, changes, tpc, payload,
          position_history, changes_log, positions_file,
          last_positions_file, changes_file, before, incomplete, disk, rounds,
          api, file, fetched, fpc,
          tracked_pairs, current_pairlist, last_update, max_pairs,
          min_pair_age_hours, clock, pc, locals, rpc, rkind, rnow, resp,
          boundary, seen, started, reads, config, tracked_address, serving>>

(***************************************************************************)
(* PositionTracker: data                                                   *)
(***************************************************************************)
Coins == {"BTC", "ETH"}

\* A dict is iterated in insertion order; the model iterates in this order.
CoinOrder == <<"BTC", "ETH">>

Sizes == {-4, -1, 1, 3, 4}
Leverages == {2, 3, 4}
EntryPrices == {10, 11, 12}
\* (position_value, unrealized_pnl, margin_used) move together with the mark.
Marks == {<<100, 0, 50>>, <<120, 20, 60>>}
Times == {1000, 1500, 2000}
WallClock == {2500}

SIZE_EPS == 2
LEV_EPS == 1
PX_EPS == 1

None == {}
Some(x) == {x}

Abs(x) == IF x < 0 THEN -x ELSE x

PositionSnapshot(c, sz, px, m, lev, ts) ==
    [coin |-> c, size |-> sz, entry_price |-> px, position_value |-> m[1],
     unrealized_pnl |-> m[2], leverage |-> lev, margin_used |-> m[3],
     timestamp |-> ts]

\* strftime('%Y-%m-%d %H:%M:%S') of timestamp / 1000: the seconds, no millis.
TimestampToHuman(ts) == ts \div 1000

PositionChange(c, kind, old_sz, new_sz, old_val, new_val, ts) ==
    [coin |-> c, change_type |-> kind, old_size |-> old_sz, new_size |-> new_sz,
     old_position_value |-> old_val, new_position_value |-> new_val,
     timestamp |-> ts, human_time |-> TimestampToHuman(ts)]

(***************************************************************************)
(* PositionTracker._determine_change_type                                  *)
(***************************************************************************)
DetermineNoFlip(old_size, new_size) ==
    IF old_size > 0 /\ new_size > 0
    THEN (IF new_size > old_size THEN "increased" ELSE "decreased")
    ELSE IF old_size < 0 /\ new_size < 0
    THEN (IF Abs(new_size) > Abs(old_size) THEN "increased" ELSE "decreased")
    ELSE "modified"

DetermineSignedShort(old_size, new_size) ==
    IF (old_size > 0 /\ new_size < 0) \/ (old_size < 0 /\ new_size > 0)
    THEN "flipped"
    ELSE IF old_size > 0 /\ new_size > 0
    THEN (IF new_size > old_size THEN "increased" ELSE "decreased")
    ELSE IF old_size < 0 /\ new_size < 0
    THEN (IF new_size > old_size THEN "increased" ELSE "decreased")
    ELSE "modified"

DetermineChangeType(old_size, new_size) ==
    IF (old_size > 0 /\ new_size < 0) \/ (old_size < 0 /\ new_size > 0)
    THEN "flipped"
    ELSE IF old_size > 0 /\ new_size > 0
    THEN (IF new_size > old_size THEN "increased" ELSE "decreased")
    ELSE IF old_size < 0 /\ new_size < 0
    THEN (IF Abs(new_size) > Abs(old_size) THEN "increased" ELSE "decreased")
    ELSE "modified"

(***************************************************************************)
(* PositionTracker._detect_changes                                         *)
(***************************************************************************)
\* timestamp = list(current_positions.values())[0].timestamp if
\* current_positions else int(datetime.now().timestamp() * 1000)
FirstCoin(cur) ==
    CoinOrder[CHOOSE i \in 1..Len(CoinOrder) :
        /\ CoinOrder[i] \in DOMAIN cur
        /\ \A j \in 1..(i - 1) : CoinOrder[j] \notin DOMAIN cur]

RoundTimestampWallClock(cur, now) == now

RoundTimestamp(cur, now) ==
    IF DOMAIN cur # {} THEN cur[FirstCoin(cur)].timestamp ELSE now

\* first loop: the coins of last_positions that are not in current_positions
ClosedCoins(last, cur) == DOMAIN last \ DOMAIN cur

ClosedChangeKeepsValue(old_pos, ts) ==
    PositionChange(old_pos.coin, "closed", Some(old_pos.size), 0,
                   Some(old_pos.position_value), old_pos.position_value, ts)

ClosedChange(old_pos, ts) ==
    PositionChange(old_pos.coin, "closed", Some(old_pos.size), 0,
                   Some(old_pos.position_value), 0, ts)

OpenedAlwaysLong(cur_pos, ts) ==
    PositionChange(cur_pos.coin, "opened_long",
                   None, cur_pos.size, None, cur_pos.position_value, ts)

OpenedChange(cur_pos, ts) ==
    PositionChange(cur_pos.coin,
                   IF cur_pos.size > 0 THEN "opened_long" ELSE "opened_short",
                   None, cur_pos.size, None, cur_pos.position_value, ts)

SizeChanged(old_pos, cur_pos) ==
    Abs(cur_pos.size - old_pos.size) > SIZE_EPS

ModifiedBoth(old_pos, cur_pos) ==
    /\ Abs(cur_pos.leverage - old_pos.leverage) > LEV_EPS
    /\ Abs(cur_pos.entry_price - old_pos.entry_price) > PX_EPS

ModifiedOrValue(old_pos, cur_pos) ==
    \/ Abs(cur_pos.leverage - old_pos.leverage) > LEV_EPS
    \/ Abs(cur_pos.entry_price - old_pos.entry_price) > PX_EPS
    \/ cur_pos.position_value # old_pos.position_value

Modified(old_pos, cur_pos) ==
    \/ Abs(cur_pos.leverage - old_pos.leverage) > LEV_EPS
    \/ Abs(cur_pos.entry_price - old_pos.entry_price) > PX_EPS

ExistingChange(old_pos, cur_pos, kind, ts) ==
    PositionChange(cur_pos.coin, kind, Some(old_pos.size), cur_pos.size,
                   Some(old_pos.position_value), cur_pos.position_value, ts)

\* the body of the second loop for one coin of current_positions
CurrentChangesIfIf(last, cur_pos, ts) ==
    IF cur_pos.coin \notin DOMAIN last
    THEN <<OpenedChange(cur_pos, ts)>>
    ELSE (IF SizeChanged(last[cur_pos.coin], cur_pos)
          THEN <<ExistingChange(last[cur_pos.coin], cur_pos,
                    DetermineChangeType(last[cur_pos.coin].size, cur_pos.size), ts)>>
          ELSE <<>>)
         \o
         (IF Modified(last[cur_pos.coin], cur_pos)
          THEN <<ExistingChange(last[cur_pos.coin], cur_pos, "modified", ts)>>
          ELSE <<>>)

CurrentChanges(last, cur_pos, ts) ==
    IF cur_pos.coin \notin DOMAIN last
    THEN <<OpenedChange(cur_pos, ts)>>
    ELSE IF SizeChanged(last[cur_pos.coin], cur_pos)
    THEN <<ExistingChange(last[cur_pos.coin], cur_pos,
              DetermineChangeType(last[cur_pos.coin].size, cur_pos.size), ts)>>
    ELSE IF Modified(last[cur_pos.coin], cur_pos)
    THEN <<ExistingChange(last[cur_pos.coin], cur_pos, "modified", ts)>>
    ELSE <<>>

RECURSIVE ClosedLoop(_, _, _, _)
ClosedLoop(i, last, cur, ts) ==
    IF i > Len(CoinOrder) THEN <<>>
    ELSE (IF CoinOrder[i] \in ClosedCoins(last, cur)
          THEN <<ClosedChange(last[CoinOrder[i]], ts)>> ELSE <<>>)
         \o ClosedLoop(i + 1, last, cur, ts)

RECURSIVE CurrentLoop(_, _, _, _)
CurrentLoop(i, last, cur, ts) ==
    IF i > Len(CoinOrder) THEN <<>>
    ELSE (IF CoinOrder[i] \in DOMAIN cur
          THEN CurrentChanges(last, cur[CoinOrder[i]], ts) ELSE <<>>)
         \o CurrentLoop(i + 1, last, cur, ts)

DetectChanges(last, cur, now) ==
    ClosedLoop(1, last, cur, RoundTimestamp(cur, now))
        \o CurrentLoop(1, last, cur, RoundTimestamp(cur, now))

(***************************************************************************)
(* Snapshot maps: what _extract_positions can produce (no zero size, every *)
(* snapshot under its own coin, one timestamp per payload).                *)
(***************************************************************************)
SnapshotsOf(c, ts) ==
    {PositionSnapshot(c, sz, px, m, lev, ts) :
        sz \in Sizes, px \in EntryPrices, m \in Marks, lev \in Leverages}

SnapshotMaps(ts) ==
    UNION {{m \in [S -> UNION {SnapshotsOf(c, ts) : c \in S}] :
                \A c \in S : m[c].coin = c} : S \in SUBSET Coins}

\* The previous round's maps: the same shape, at the reference leverage,
\* entry price and mark.
BaseSnapshotsOf(c, ts) ==
    {PositionSnapshot(c, sz, 10, <<100, 0, 50>>, 2, ts) : sz \in Sizes}

BaseSnapshotMaps(ts) ==
    UNION {{m \in [S -> UNION {BaseSnapshotsOf(c, ts) : c \in S}] :
                \A c \in S : m[c].coin = c} : S \in SUBSET Coins}

(***************************************************************************)
(* The payload of track_positions and PositionTracker._extract_positions   *)
(*                                                                         *)
(* A numeric field of the payload is a text (or a number) that float()     *)
(* either parses to a value or rejects with ValueError.                    *)
(***************************************************************************)
Num(n) == [parses |-> TRUE, val |-> n]

NotANumber == [parses |-> FALSE, val |-> 0]

FloatFails(raw) == ~raw.parses

Float(raw) == raw.val

\* pos['leverage'] is a dict holding 'value', or the value itself.
LeverageDict(raw) == [is_dict |-> TRUE, value |-> raw]

LeverageScalar(raw) == [is_dict |-> FALSE, value |-> raw]

\* pos['leverage']['value'] if isinstance(pos['leverage'], dict)
\* else pos['leverage']
LeverageValue(e) == e.leverage.value

\* One element of data['assetPositions'].
AssetPosition(c, type, has_pos, szi, px, m, lev) ==
    [type |-> type, has_position |-> has_pos, coin |-> c, szi |-> szi,
     entryPx |-> px, positionValue |-> m[1], unrealizedPnl |-> m[2],
     leverage |-> lev, marginUsed |-> m[3]]

\* if asset_pos['type'] == 'oneWay' and 'position' in asset_pos
ConsideredAnyType(e) == e.has_position

Considered(e) == e.type = "oneWay" /\ e.has_position

\* the fields converted after the zero-size test
OtherFieldsFail(e) ==
    \/ FloatFails(e.entryPx)
    \/ FloatFails(e.positionValue)
    \/ FloatFails(e.unrealizedPnl)
    \/ FloatFails(LeverageValue(e))
    \/ FloatFails(e.marginUsed)

EntryRaisesOnSizeOnly(e) == Considered(e) /\ FloatFails(e.szi)

\* size = float(pos['szi']); if size == 0: continue; then the other fields
EntryRaises(e) ==
    /\ Considered(e)
    /\ \/ FloatFails(e.szi)
       \/ Float(e.szi) # 0 /\ OtherFieldsFail(e)

EntryKeptZeroToo(e) == Considered(e) /\ ~FloatFails(e.szi)

EntryKept(e) == Considered(e) /\ ~FloatFails(e.szi) /\ Float(e.szi) # 0

SnapshotOfEntry(e, ts) ==
    PositionSnapshot(e.coin, Float(e.szi), Float(e.entryPx),
                     <<Float(e.positionValue), Float(e.unrealizedPnl),
                       Float(e.marginUsed)>>,
                     Float(LeverageValue(e)), ts)

\* positions[coin] = snapshot: the last kept entry of a coin is the one that
\* stays.
LastKept(ap, c) ==
    CHOOSE i \in 1..Len(ap) :
        /\ EntryKept(ap[i]) /\ ap[i].coin = c
        /\ \A j \in (i + 1)..Len(ap) : ~(EntryKept(ap[j]) /\ ap[j].coin = c)

ExtractedNoneOnRaise == [raised |-> TRUE, positions |-> <<>>]

ExtractPositions(data) ==
    LET ap == data.assetPositions
        kept == {ap[i].coin : i \in {j \in 1..Len(ap) : EntryKept(ap[j])}}
    IN  IF \E i \in 1..Len(ap) : EntryRaises(ap[i])
        THEN ExtractedNoneOnRaise
        ELSE [raised |-> FALSE,
              positions |->
                  [c \in kept |-> SnapshotOfEntry(ap[LastKept(ap, c)],
                                                  data.time)]]

(***************************************************************************)
(* The three stored files of the tracker                                   *)
(*                                                                         *)
(* A file is missing, or it cannot be opened, or it holds rows; bad is the *)
(* number of the first row the reader cannot convert (0: every row         *)
(* converts).                                                               *)
(***************************************************************************)
MissingFile == [exists |-> FALSE, readable |-> FALSE, rows |-> <<>>, bad |-> 0]

WrittenFile(rows) ==
    [exists |-> TRUE, readable |-> TRUE, rows |-> rows, bad |-> 0]

SnapshotRow(pos) ==
    [coin |-> pos.coin, size |-> pos.size, entry_price |-> pos.entry_price,
     position_value |-> pos.position_value,
     unrealized_pnl |-> pos.unrealized_pnl, leverage |-> pos.leverage,
     margin_used |-> pos.margin_used, timestamp |-> pos.timestamp,
     human_time |-> TimestampToHuman(pos.timestamp)]

SnapshotOfRow(row) ==
    [coin |-> row.coin, size |-> row.size, entry_price |-> row.entry_price,
     position_value |-> row.position_value,
     unrealized_pnl |-> row.unrealized_pnl, leverage |-> row.leverage,
     margin_used |-> row.margin_used, timestamp |-> row.timestamp]

\* change.old_size or '': None and 0.0 are both written as the empty text
OrEmpty(opt) == {v \in opt : v # 0}

ChangeRow(ch) ==
    [coin |-> ch.coin, change_type |-> ch.change_type,
     old_size |-> OrEmpty(ch.old_size), new_size |-> ch.new_size,
     old_position_value |-> OrEmpty(ch.old_position_value),
     new_position_value |-> ch.new_position_value,
     timestamp |-> ch.timestamp, human_time |-> ch.human_time]

\* float(row['old_size']) if row['old_size'] else None
ChangeOfRow(row) ==
    [coin |-> row.coin, change_type |-> row.change_type,
     old_size |-> row.old_size, new_size |-> row.new_size,
     old_position_value |-> row.old_position_value,
     new_position_value |-> row.new_position_value,
     timestamp |-> row.timestamp, human_time |-> row.human_time]

RECURSIVE RowsOfList(_, _)
RowsOfList(list, i) ==
    IF i > Len(list) THEN <<>>
    ELSE <<SnapshotRow(list[i])>> \o RowsOfList(list, i + 1)

\* for coin, positions in self.position_history.items(): for pos in positions
RECURSIVE HistoryRows(_, _)
HistoryRows(hist, i) ==
    IF i > Len(CoinOrder) THEN <<>>
    ELSE (IF CoinOrder[i] \in DOMAIN hist
          THEN RowsOfList(hist[CoinOrder[i]], 1) ELSE <<>>)
         \o HistoryRows(hist, i + 1)

\* for pos in self.last_positions.values()
RECURSIVE LastRows(_, _)
LastRows(last, i) ==
    IF i > Len(CoinOrder) THEN <<>>
    ELSE (IF CoinOrder[i] \in DOMAIN last
          THEN <<SnapshotRow(last[CoinOrder[i]])>> ELSE <<>>)
         \o LastRows(last, i + 1)

ChangeRowsNewestOnly(log) ==
    IF log = <<>> THEN <<>> ELSE <<ChangeRow(log[Len(log)])>>

ChangeRows(log) == [i \in 1..Len(log) |-> ChangeRow(log[i])]

SavePositionsHistory(hist) == WrittenFile(HistoryRows(hist, 1))

SaveLastPositions(last) == WrittenFile(LastRows(last, 1))

SaveChangesLog(log) == WrittenFile(ChangeRows(log))

\* The rows the reader converts before it stops.
Converted(f) == IF f.bad = 0 THEN Len(f.rows) ELSE f.bad - 1

LoadFails(f) == f.exists /\ (~f.readable \/ f.bad # 0)

LoadLastPositionsNothing(f) == <<>>

\* self.last_positions = {} and then one assignment per converted row; the
\* except clause prints a warning and keeps what was assigned so far.
LoadLastPositions(f) ==
    IF ~f.exists \/ ~f.readable THEN <<>>
    ELSE [c \in {f.rows[i].coin : i \in 1..Converted(f)} |->
             SnapshotOfRow(f.rows[CHOOSE i \in 1..Converted(f) :
                 /\ f.rows[i].coin = c
                 /\ \A j \in (i + 1)..Converted(f) : f.rows[j].coin # c])]

RECURSIVE RowsOfCoin(_, _, _, _)
RowsOfCoin(f, c, i, n) ==
    IF i > n THEN <<>>
    ELSE (IF f.rows[i].coin = c THEN <<SnapshotOfRow(f.rows[i])>> ELSE <<>>)
         \o RowsOfCoin(f, c, i + 1, n)

LoadPositionsHistory(f) ==
    IF ~f.exists \/ ~f.readable THEN <<>>
    ELSE [c \in {f.rows[i].coin : i \in 1..Converted(f)} |->
             RowsOfCoin(f, c, 1, Converted(f))]

LoadChangesLog(f) ==
    IF ~f.exists \/ ~f.readable THEN <<>>
    ELSE [i \in 1..Converted(f) |-> ChangeOfRow(f.rows[i])]

(***************************************************************************)
(* PositionTracker.track_positions                                         *)
(***************************************************************************)
SignificantKinds ==
    {"opened_long", "opened_short", "closed", "increased", "decreased",
     "flipped", "modified"}

ShouldAddAlways(c, chs) == TRUE

ShouldAddToHistory(c, chs) ==
    \E i \in 1..Len(chs) :
        chs[i].coin = c /\ chs[i].change_type \in SignificantKinds

\* if changes: every current coin gets a list, and the coins with an event
\* get the current snapshot appended
UpdateHistory(hist, cur, chs) ==
    IF chs = <<>> THEN hist
    ELSE [c \in DOMAIN hist \cup DOMAIN cur |->
             LET old == IF c \in DOMAIN hist THEN hist[c] ELSE <<>>
             IN  IF c \in DOMAIN cur /\ ShouldAddToHistory(c, chs)
                 THEN Append(old, cur[c]) ELSE old]

(***************************************************************************)
(* SpecDetect: _detect_changes applied to every pair of maps               *)
(***************************************************************************)
\* The tracker before any payload, and the service call not started: what
\* the specifications of the other component hold fixed.
HandlerIdle ==
    /\ payload = [time |-> 0, assetPositions |-> <<>>]
    /\ position_history = <<>>
    /\ changes_log = <<>>
    /\ positions_file = MissingFile
    /\ last_positions_file = MissingFile
    /\ changes_file = MissingFile
    /\ before = <<>>
    /\ incomplete = FALSE
    /\ disk = [fails |-> {}, how |-> "denied"]
    /\ rounds = 0

TrackerIdle ==
    /\ last_positions = <<>>
    /\ current_positions = <<>>
    /\ changes = <<>>
    /\ tpc = "call"
    /\ HandlerIdle

FetchIdle ==
    /\ api = [raises |-> TRUE, entries |-> <<>>]
    /\ file = [kind |-> "missing", coins |-> {}]
    /\ fetched = [raised |-> FALSE, coins |-> {}]
    /\ fpc = "idle"

\* The placeholder init_service falls back to.
CHANGE_ME == "CHANGE_ME_TO_THE_ADDRESS_YOU_WANT_TO_TRACK"

\* init_service not called.
StartupIdle ==
    /\ config = [address |-> None, strategy |-> None]
    /\ tracked_address = None
    /\ serving = FALSE

\* The service started with --address.
StartupDone ==
    /\ config = [address |-> Some("0xACCOUNT"), strategy |-> None]
    /\ tracked_address = Some("0xACCOUNT")
    /\ serving = TRUE

\* service = None, line 332
NoService ==
    /\ tracked_pairs = <<>>
    /\ current_pairlist = <<>>
    /\ last_update = {}
    /\ max_pairs = 50
    /\ min_pair_age_hours = 1
    /\ clock = 0
    /\ pc = <<>>
    /\ locals = <<>>
    /\ rpc = "idle"
    /\ rkind = "pairlist"
    /\ rnow = 0
    /\ resp = <<>>
    /\ boundary = <<>>
    /\ seen = {}
    /\ started = 0
    /\ reads = 0

\* The service not constructed.
ServiceIdle == StartupIdle /\ NoService

InitDetect ==
    /\ FetchIdle
    /\ ServiceIdle
    /\ last_positions \in BaseSnapshotMaps(1000)
    /\ current_positions \in SnapshotMaps(2000)
    /\ changes = <<>>
    /\ tpc = "call"
    /\ HandlerIdle

DetectCall ==
    /\ tpc = "call"
    /\ \E now \in WallClock :
          changes' = DetectChanges(last_positions, current_positions, now)
    /\ tpc' = "ret"
    /\ UNCHANGED <<last_positions, current_positions>>
    /\ UNCHANGED hvars
    /\ UNCHANGED fvars
    /\ UNCHANGED svars

NextDetect == DetectCall

SpecDetect == InitDetect /\ [][NextDetect]_vars

(***************************************************************************)
(* DynamicPairListService: data                                            *)
(*                                                                         *)
(* Times are counted in hours.  A set of coins is iterated in one of two   *)
(* orders (the order of AllCoins or its reverse): the order of a Python    *)
(* set is not specified.                                                   *)
(***************************************************************************)
AllCoins ==
    <<"BTC", "ETH", "SOL", "BNB", "XRP", "AVAX", "DOGE", "ADA", "LINK",
      "AAVE", "LDO", "TRX", "PENGU", "TRUMP", "FARTCOIN", "kPEPE",
      "NEIROETH", "BIO", "WLFI", "kFLOKI", "HYPE">>

Universe == {AllCoins[i] : i \in 1..Len(AllCoins)}

SetOrders == {"asc", "desc"}

Reverse(s) == [i \in 1..Len(s) |-> s[Len(s) + 1 - i]]

RECURSIVE Filtered(_, _, _)
Filtered(s, i, S) ==
    IF i > Len(s) THEN <<>>
    ELSE (IF s[i] \in S THEN <<s[i]>> ELSE <<>>) \o Filtered(s, i + 1, S)

\* the elements of the set S of coins, in the order a loop visits them
IterateSet(S, ord) ==
    IF ord = "asc" THEN Filtered(AllCoins, 1, S)
    ELSE Reverse(Filtered(AllCoins, 1, S))

\* f"{coin}/USDC:USDC" and pair.split('/')[0]
PairOf(coin) == <<coin, "USDC:USDC">>

CoinOfPair(pair) == pair[1]

base_pairs ==
    <<PairOf("BTC"), PairOf("ETH"), PairOf("SOL"), PairOf("BNB"), PairOf("XRP")>>

\* _get_default_popular_pairs
DefaultPopularPairs ==
    {"BTC", "ETH", "SOL", "AVAX", "DOGE", "XRP", "ADA", "LINK", "AAVE", "LDO",
     "TRX", "PENGU", "TRUMP", "FARTCOIN", "kPEPE", "NEIROETH", "BIO", "WLFI",
     "kFLOKI"}

(***************************************************************************)
(* The account data source and the stored last-positions record            *)
(***************************************************************************)
\* float(pos['szi']): the strings of the model and what float() makes of
\* them ("abc" raises ValueError).
SziStrings == {"0", "-0.0", "1.5", "-2", "abc"}

FloatRaises(str) == str = "abc"

FloatIsZero(str) == str \in {"0", "-0.0"}

\* One entry of perp_data['assetPositions'].
AssetPositions(c) ==
    {[type |-> "oneWay", has_position |-> TRUE, coin |-> c, szi |-> z] :
        z \in SziStrings}
    \cup {[type |-> "oneWay", has_position |-> FALSE, coin |-> c, szi |-> "0"],
          [type |-> "twoWay", has_position |-> TRUE, coin |-> c, szi |-> "1.5"]}

\* What info.user_state() does: it raises, or returns a payload with at
\* most one entry per coin of S.
ApiOutcomes(S) ==
    {[raises |-> TRUE, entries |-> <<>>]}
    \cup UNION {{[raises |-> FALSE, entries |-> e] :
                    e \in {f \in [T -> UNION {AssetPositions(c) : c \in T}] :
                              \A c \in T : f[c].coin = c}} : T \in SUBSET S}

\* last_positions.csv as the service finds it: missing, not readable as a
\* CSV with a 'coin' column, or a table of rows (possibly none).
FileStates(S) ==
    {[kind |-> "missing", coins |-> {}], [kind |-> "unreadable", coins |-> {}]}
    \cup {[kind |-> "rows", coins |-> T] : T \in SUBSET S}

(***************************************************************************)
(* DynamicPairListService._get_current_positions and its fallbacks         *)
(***************************************************************************)
Returns(coins) == [raised |-> FALSE, coins |-> coins]

Raises == [raised |-> TRUE, coins |-> {}]

\* lines 122-137: the try block
LiveFetch(api_outcome) ==
    IF api_outcome.raises THEN Raises
    ELSE IF \E c \in DOMAIN api_outcome.entries :
                /\ api_outcome.entries[c].type = "oneWay"
                /\ api_outcome.entries[c].has_position
                /\ FloatRaises(api_outcome.entries[c].szi)
    THEN Raises
    ELSE Returns({api_outcome.entries[c].coin : c \in
            {d \in DOMAIN api_outcome.entries :
                /\ api_outcome.entries[d].type = "oneWay"
                /\ api_outcome.entries[d].has_position
                /\ ~FloatIsZero(api_outcome.entries[d].szi)}})

GetFallbackPositions(file_state) ==
    IF file_state.kind = "missing" THEN Returns({})
    ELSE IF file_state.kind = "unreadable" THEN Returns({})
    ELSE Returns(file_state.coins)

GetCurrentEmptyRecordUsed(api_outcome, file_state) ==
    IF ~LiveFetch(api_outcome).raised THEN LiveFetch(api_outcome)
    ELSE IF GetFallbackPositions(file_state).raised THEN Raises
    ELSE IF file_state.kind = "rows"
    THEN GetFallbackPositions(file_state)
    ELSE Returns(DefaultPopularPairs)

GetCurrentPositions(api_outcome, file_state) ==
    IF ~LiveFetch(api_outcome).raised THEN LiveFetch(api_outcome)
    ELSE IF GetFallbackPositions(file_state).raised THEN Raises
    ELSE IF GetFallbackPositions(file_state).coins # {}
    THEN GetFallbackPositions(file_state)
    ELSE Returns(DefaultPopularPairs)

(***************************************************************************)
(* DynamicPairListService._update_tracked_pairs                            *)
(* tracked_pairs is a dict, iterated in insertion order: a sequence of     *)
(* PairInfo with one entry per coin.                                       *)
(***************************************************************************)
PairInfo(c, first, last, n, active) ==
    [coin |-> c, pair |-> PairOf(c), first_seen |-> first, last_seen |-> last,
     total_trades |-> n, is_active |-> active]

TrackedCoins(tracked) == {tracked[i].coin : i \in 1..Len(tracked)}

InfoOf(tracked, c) ==
    tracked[CHOOSE i \in 1..Len(tracked) : tracked[i].coin = c]

MarkActiveNeverCleared(tracked, current_coins, now) ==
    [i \in 1..Len(tracked) |->
        [tracked[i] EXCEPT
            !.is_active = @ \/ tracked[i].coin \in current_coins,
            !.last_seen = IF tracked[i].coin \in current_coins THEN now ELSE @]]

MarkActiveStampsAll(tracked, current_coins, now) ==
    [i \in 1..Len(tracked) |->
        [tracked[i] EXCEPT
            !.is_active = tracked[i].coin \in current_coins,
            !.last_seen = now]]

MarkActiveCountingSightings(tracked, current_coins, now) ==
    [i \in 1..Len(tracked) |->
        [tracked[i] EXCEPT
            !.is_active = tracked[i].coin \in current_coins,
            !.last_seen = IF tracked[i].coin \in current_coins THEN now ELSE @,
            !.total_trades =
                IF tracked[i].coin \in current_coins THEN @ + 1 ELSE @]]

MarkActiveDropStale(tracked, current_coins, now) ==
    SelectSeq(
        [i \in 1..Len(tracked) |->
            [tracked[i] EXCEPT
                !.is_active = tracked[i].coin \in current_coins,
                !.last_seen =
                    IF tracked[i].coin \in current_coins THEN now ELSE @]],
        LAMBDA info : now - info.last_seen <= 30 * 24)

\* lines 190-193: the loop over the tracked entries
MarkActive(tracked, current_coins, now) ==
    [i \in 1..Len(tracked) |->
        [tracked[i] EXCEPT
            !.is_active = tracked[i].coin \in current_coins,
            !.last_seen = IF tracked[i].coin \in current_coins THEN now ELSE @]]

\* lines 196-207: the loop over current_coins
RECURSIVE AddNewFrom(_, _, _, _)
AddNewFrom(tracked, coins, i, now) ==
    IF i > Len(coins) THEN tracked
    ELSE AddNewFrom(
            IF coins[i] \in TrackedCoins(tracked) THEN tracked
            ELSE Append(tracked, PairInfo(coins[i], now, now, 1, TRUE)),
            coins, i + 1, now)

AddNew(tracked, current_coins, now, ord) ==
    AddNewFrom(tracked, IterateSet(current_coins, ord), 1, now)

UpdateTrackedPairs(tracked, current_coins, now, ord) ==
    AddNew(MarkActive(tracked, current_coins, now), current_coins, now, ord)

(***************************************************************************)
(* DynamicPairListService._filter_pairs_by_criteria                        *)
(***************************************************************************)
STALE_HOURS == 720

IsBasePair(pair) == \E i \in 1..Len(base_pairs) : base_pairs[i] = pair

MeetsCriteriaAgedAndActive(info, now, min_age) ==
    /\ (now - info.first_seen >= min_age /\ info.is_active)
    /\ now - info.last_seen <= STALE_HOURS

\* line 231
MeetsCriteria(info, now, min_age) ==
    /\ (now - info.first_seen >= min_age \/ info.is_active)
    /\ now - info.last_seen <= STALE_HOURS

RECURSIVE EligibleTracked(_, _, _, _)
EligibleTracked(tracked, i, now, min_age) ==
    IF i > Len(tracked) THEN <<>>
    ELSE (IF ~IsBasePair(tracked[i].pair) /\ MeetsCriteria(tracked[i], now, min_age)
          THEN <<tracked[i].pair>> ELSE <<>>)
         \o EligibleTracked(tracked, i + 1, now, min_age)

\* lines 214-232
EligiblePairs(tracked, now, min_age) ==
    base_pairs \o EligibleTracked(tracked, 1, now, min_age)

SortKeyWithoutRecency(pair, tracked) ==
    IF CoinOfPair(pair) \notin TrackedCoins(tracked) THEN <<1, 0, 0>>
    ELSE <<IF InfoOf(tracked, CoinOfPair(pair)).is_active THEN 0 ELSE 1,
           0,
           0 - InfoOf(tracked, CoinOfPair(pair)).total_trades>>

\* lines 237-247
SortKey(pair, tracked) ==
    IF CoinOfPair(pair) \notin TrackedCoins(tracked) THEN <<1, 0, 0>>
    ELSE <<IF InfoOf(tracked, CoinOfPair(pair)).is_active THEN 0 ELSE 1,
           0 - InfoOf(tracked, CoinOfPair(pair)).last_seen,
           0 - InfoOf(tracked, CoinOfPair(pair)).total_trades>>

KeyLess(a, b) ==
    \/ a[1] < b[1]
    \/ a[1] = b[1] /\ a[2] < b[2]
    \/ a[1] = b[1] /\ a[2] = b[2] /\ a[3] < b[3]

\* list.sort is stable: x goes after the elements whose key is not greater
InsertByKey(sorted, x, tracked) ==
    IF \E i \in 1..Len(sorted) : KeyLess(SortKey(x, tracked), SortKey(sorted[i], tracked))
    THEN SubSeq(sorted, 1,
            (CHOOSE i \in 1..Len(sorted) :
                /\ KeyLess(SortKey(x, tracked), SortKey(sorted[i], tracked))
                /\ \A j \in 1..(i - 1) :
                      ~KeyLess(SortKey(x, tracked), SortKey(sorted[j], tracked))) - 1)
         \o <<x>> \o
         SubSeq(sorted,
            (CHOOSE i \in 1..Len(sorted) :
                /\ KeyLess(SortKey(x, tracked), SortKey(sorted[i], tracked))
                /\ \A j \in 1..(i - 1) :
                      ~KeyLess(SortKey(x, tracked), SortKey(sorted[j], tracked))),
            Len(sorted))
    ELSE Append(sorted, x)

RECURSIVE SortFrom(_, _, _, _)
SortFrom(sorted, pairs, i, tracked) ==
    IF i > Len(pairs) THEN sorted
    ELSE SortFrom(InsertByKey(sorted, pairs[i], tracked), pairs, i + 1, tracked)

SortByKey(pairs, tracked) == SortFrom(<<>>, pairs, 1, tracked)

\* s[:n]: the first n elements, or all but the last -n when n is negative
SliceTo(s, n) ==
    SubSeq(s, 1, IF n < 0 THEN (IF Len(s) + n < 0 THEN 0 ELSE Len(s) + n)
                 ELSE IF n > Len(s) THEN Len(s) ELSE n)

TruncatedNever(pairs, tracked, cap) == pairs

\* lines 235-250
Truncated(pairs, tracked, cap) ==
    IF Len(pairs) > cap
    THEN SliceTo(SortByKey(pairs, tracked), cap)
    ELSE pairs

\* list(set(eligible_pairs))
ListOfSet(pairs, ord) ==
    LET coins == IterateSet({CoinOfPair(pairs[i]) : i \in 1..Len(pairs)}, ord)
    IN  [i \in 1..Len(coins) |-> PairOf(coins[i])]

FilterPairsByCriteria(tracked, now, min_age, cap, ord) ==
    ListOfSet(Truncated(EligiblePairs(tracked, now, min_age), tracked, cap), ord)

(***************************************************************************)
(* The readers: get_pairlist_response and get_stats                        *)
(***************************************************************************)
\* datetime.isoformat()
IsoFormat(t) == <<"iso", t>>

IsoOrNone(opt) == {IsoFormat(t) : t \in opt}

ActiveCount(tracked) ==
    Cardinality({i \in 1..Len(tracked) : tracked[i].is_active})

\* sorted(self.tracked_pairs.values(), key=lambda x: x.last_seen,
\* reverse=True): stable, the later last_seen first
InsertByLastSeen(sorted, x) ==
    IF \E i \in 1..Len(sorted) : sorted[i].last_seen < x.last_seen
    THEN SubSeq(sorted, 1,
            (CHOOSE i \in 1..Len(sorted) :
                /\ sorted[i].last_seen < x.last_seen
                /\ \A j \in 1..(i - 1) : ~(sorted[j].last_seen < x.last_seen)) - 1)
         \o <<x>> \o
         SubSeq(sorted,
            (CHOOSE i \in 1..Len(sorted) :
                /\ sorted[i].last_seen < x.last_seen
                /\ \A j \in 1..(i - 1) : ~(sorted[j].last_seen < x.last_seen)),
            Len(sorted))
    ELSE Append(sorted, x)

RECURSIVE SortByLastSeen(_, _, _)
SortByLastSeen(sorted, tracked, i) ==
    IF i > Len(tracked) THEN sorted
    ELSE SortByLastSeen(InsertByLastSeen(sorted, tracked[i]), tracked, i + 1)

\* lines 299-311
StatsDetails(tracked, now) ==
    LET sorted == SortByLastSeen(<<>>, tracked, 1)
    IN  [i \in 1..Len(sorted) |->
            [coin |-> sorted[i].coin, pair |-> sorted[i].pair,
             first_seen |-> IsoFormat(sorted[i].first_seen),
             last_seen |-> IsoFormat(sorted[i].last_seen),
             total_trades |-> sorted[i].total_trades,
             is_active |-> sorted[i].is_active,
             age_hours |-> now - sorted[i].first_seen]]

\* The payload before any field is read.  The configuration fields
\* (refresh_period, tracked_address, ...) never change and are left out.
EmptyResponse ==
    [pairs |-> <<>>, last_update |-> None, total |-> 0, active |-> 0,
     details |-> <<>>]

\* the payload a handler builds when nothing changes while it runs
ResponseOf(kind, st, now) ==
    [pairs |-> st.current_pairlist,
     last_update |-> IsoOrNone(st.last_update),
     total |-> Len(st.tracked_pairs),
     active |-> ActiveCount(st.tracked_pairs),
     details |-> IF kind = "stats" THEN StatsDetails(st.tracked_pairs, now)
                 ELSE <<>>]

(***************************************************************************)
(* SpecConc: the scheduler thread, a POST /refresh request and a reading   *)
(* request (GET /pairlist or GET /stats) running in one process.  A step   *)
(* is one statement or one loop of the handler; CPython may switch threads *)
(* between any two of them.                                                *)
(***************************************************************************)
Refreshers == {"scheduler", "refresh"}

\* The inputs of this specification: the account trades HYPE or nothing,
\* and the tracker has stored a HYPE position.
ConcApis == ApiOutcomes({"HYPE"})

ConcFiles == {[kind |-> "rows", coins |-> {"HYPE"}]}

MaxClock == 2

MaxRefreshes == 2

MaxReads == 1

NoLocals == [coins |-> {}, now |-> 0, new_pairlist |-> <<>>, used |-> 0]

ServiceState ==
    [tracked_pairs |-> tracked_pairs, current_pairlist |-> current_pairlist,
     last_update |-> last_update]

\* __init__ (lines 44-63) when no history is stored: nothing tracked, then
\* the first _update_pairlist, at time 1.
InitConc ==
    /\ TrackerIdle
    /\ FetchIdle
    /\ StartupDone
    /\ max_pairs = 50
    /\ min_pair_age_hours = 1
    /\ clock = 1
    /\ \E a \in ConcApis, f \in ConcFiles, o \in SetOrders :
          /\ tracked_pairs =
                UpdateTrackedPairs(<<>>, GetCurrentPositions(a, f).coins, 1, o)
          /\ current_pairlist =
                FilterPairsByCriteria(
                    UpdateTrackedPairs(<<>>, GetCurrentPositions(a, f).coins, 1, o),
                    1, 1, 50, o)
    /\ last_update = Some(1)
    /\ pc = [t \in Refreshers |-> "idle"]
    /\ locals = [t \in Refreshers |-> NoLocals]
    /\ rpc = "idle"
    /\ rkind = "pairlist"
    /\ rnow = 0
    /\ resp = EmptyResponse
    /\ boundary = [tracked_pairs |-> tracked_pairs,
                   current_pairlist |-> current_pairlist,
                   last_update |-> last_update]
    /\ seen = {}
    /\ started = 0
    /\ reads = 0

Reading == rpc # "idle"

\* the ghost variables at the beginning or the end of a refresh
AtBoundary(st) ==
    /\ boundary' = st
    /\ seen' = IF Reading THEN seen \cup {st} ELSE seen

Tick ==
    /\ clock < MaxClock
    /\ clock' = clock + 1
    /\ UNCHANGED <<tracked_pairs, current_pairlist, last_update, max_pairs,
                   min_pair_age_hours, pc, locals, rpc, rkind, rnow, resp,
                   boundary, seen,
                   started, reads>>

\* run_scheduler: schedule.run_pending() finds the job due (lines 317-322)
SchedulerDue ==
    /\ started < MaxRefreshes
    /\ pc["scheduler"] = "idle"
    /\ pc' = [pc EXCEPT !["scheduler"] = "fetch"]
    /\ AtBoundary(ServiceState)
    /\ UNCHANGED <<tracked_pairs, current_pairlist, last_update, max_pairs,
                   min_pair_age_hours, clock, locals, rpc, rkind, rnow, resp,
                   reads>>
    /\ started' = started + 1

\* force_refresh: a POST /refresh arrives (lines 375-381)
ForceRefresh ==
    /\ started < MaxRefreshes
    /\ pc["refresh"] = "idle"
    /\ pc' = [pc EXCEPT !["refresh"] = "fetch"]
    /\ AtBoundary(ServiceState)
    /\ UNCHANGED <<tracked_pairs, current_pairlist, last_update, max_pairs,
                   min_pair_age_hours, clock, locals, rpc, rkind, rnow, resp,
                   reads>>
    /\ started' = started + 1

\* line 186-187: current_coins = self._get_current_positions(); now = ...
StepFetch(t) ==
    /\ pc[t] = "fetch"
    /\ \E a \in ConcApis, f \in ConcFiles :
          locals' = [locals EXCEPT ![t].coins = GetCurrentPositions(a, f).coins,
                                   ![t].now = clock]
    /\ pc' = [pc EXCEPT ![t] = "mark"]
    /\ UNCHANGED <<tracked_pairs, current_pairlist, last_update, max_pairs,
                   min_pair_age_hours, clock, rpc, rkind, rnow, resp,
                   boundary, seen,
                   started, reads>>

\* lines 190-193
StepMark(t) ==
    /\ pc[t] = "mark"
    /\ tracked_pairs' = MarkActive(tracked_pairs, locals[t].coins, locals[t].now)
    /\ pc' = [pc EXCEPT ![t] = "add"]
    /\ UNCHANGED <<current_pairlist, last_update, max_pairs, min_pair_age_hours,
                   clock, locals, rpc, rkind, rnow, resp, boundary, seen,
                   started, reads>>

\* lines 196-207
StepAdd(t) ==
    /\ pc[t] = "add"
    /\ \E o \in SetOrders :
          tracked_pairs' = AddNew(tracked_pairs, locals[t].coins, locals[t].now, o)
    /\ pc' = [pc EXCEPT ![t] = "filter"]
    /\ UNCHANGED <<current_pairlist, last_update, max_pairs, min_pair_age_hours,
                   clock, locals, rpc, rkind, rnow, resp, boundary, seen,
                   started, reads>>

\* line 258
StepFilter(t) ==
    /\ pc[t] = "filter"
    /\ \E o \in SetOrders :
          locals' = [locals EXCEPT ![t].new_pairlist =
                        FilterPairsByCriteria(tracked_pairs, clock,
                            min_pair_age_hours, max_pairs, o)]
    /\ pc' = [pc EXCEPT ![t] = "publish"]
    /\ UNCHANGED <<tracked_pairs, current_pairlist, last_update, max_pairs,
                   min_pair_age_hours, clock, rpc, rkind, rnow, resp,
                   boundary, seen,
                   started, reads>>

\* lines 260-262: the list differs and is published
StepPublish(t) ==
    /\ pc[t] = "publish"
    /\ locals[t].new_pairlist # current_pairlist
    /\ current_pairlist' = locals[t].new_pairlist
    /\ pc' = [pc EXCEPT ![t] = "stamp"]
    /\ UNCHANGED <<tracked_pairs, last_update, max_pairs, min_pair_age_hours,
                   clock, locals, rpc, rkind, rnow, resp, boundary, seen,
                   started, reads>>

\* line 260: the list is the published one, the refresh ends
StepSame(t) ==
    /\ pc[t] = "publish"
    /\ locals[t].new_pairlist = current_pairlist
    /\ pc' = [pc EXCEPT ![t] = "idle"]
    /\ locals' = [locals EXCEPT ![t] = NoLocals]
    /\ AtBoundary(ServiceState)
    /\ UNCHANGED <<tracked_pairs, current_pairlist, last_update, max_pairs,
                   min_pair_age_hours, clock, rpc, rkind, rnow, resp,
                   started, reads>>

\* line 263, and the refresh ends
StepStamp(t) ==
    /\ pc[t] = "stamp"
    /\ last_update' = Some(clock)
    /\ pc' = [pc EXCEPT ![t] = "idle"]
    /\ locals' = [locals EXCEPT ![t] = NoLocals]
    /\ AtBoundary([ServiceState EXCEPT !.last_update = Some(clock)])
    /\ UNCHANGED <<tracked_pairs, current_pairlist, max_pairs,
                   min_pair_age_hours, clock, rpc, rkind, rnow, resp,
                   started, reads>>

\* a GET /pairlist or GET /stats arrives (lines 350-364; line 283)
ReaderStart ==
    /\ reads < MaxReads
    /\ rpc \in {"idle", "done"}
    /\ \E k \in {"pairlist", "stats"} : rkind' = k
    /\ rnow' = clock
    /\ resp' = EmptyResponse
    /\ rpc' = "r1"
    /\ seen' = {boundary}
    /\ UNCHANGED <<tracked_pairs, current_pairlist, last_update, max_pairs,
                   min_pair_age_hours, clock, pc, locals, boundary,
                   started>>
    /\ reads' = reads + 1

\* get_pairlist_response reads pairs (274), last_update (276), the number of
\* tracked pairs (277) and of active ones (278); get_stats reads last_update
\* (290), the list (293-294), the two numbers (297-298) and the details
\* (299-311).
ReaderRead1 ==
    /\ rpc = "r1"
    /\ resp' = IF rkind = "pairlist"
               THEN [resp EXCEPT !.pairs = current_pairlist]
               ELSE [resp EXCEPT !.last_update = IsoOrNone(last_update)]
    /\ rpc' = "r2"
    /\ UNCHANGED <<tracked_pairs, current_pairlist, last_update, max_pairs,
                   min_pair_age_hours, clock, pc, locals, rkind, rnow,
                   boundary, seen,
                   started, reads>>

ReaderRead2 ==
    /\ rpc = "r2"
    /\ resp' = IF rkind = "pairlist"
               THEN [resp EXCEPT !.last_update = IsoOrNone(last_update)]
               ELSE [resp EXCEPT !.pairs = current_pairlist]
    /\ rpc' = "r3"
    /\ UNCHANGED <<tracked_pairs, current_pairlist, last_update, max_pairs,
                   min_pair_age_hours, clock, pc, locals, rkind, rnow,
                   boundary, seen,
                   started, reads>>

ReaderRead3 ==
    /\ rpc = "r3"
    /\ resp' = IF rkind = "pairlist"
               THEN [resp EXCEPT !.total = Len(tracked_pairs)]
               ELSE [resp EXCEPT !.total = Len(tracked_pairs),
                                 !.active = ActiveCount(tracked_pairs)]
    /\ rpc' = "r4"
    /\ UNCHANGED <<tracked_pairs, current_pairlist, last_update, max_pairs,
                   min_pair_age_hours, clock, pc, locals, rkind, rnow,
                   boundary, seen,
                   started, reads>>

ReaderRead4 ==
    /\ rpc = "r4"
    /\ resp' = IF rkind = "pairlist"
               THEN [resp EXCEPT !.active = ActiveCount(tracked_pairs)]
               ELSE [resp EXCEPT !.details = StatsDetails(tracked_pairs, rnow)]
    /\ rpc' = "done"
    /\ UNCHANGED <<tracked_pairs, current_pairlist, last_update, max_pairs,
                   min_pair_age_hours, clock, pc, locals, rkind, rnow,
                   boundary, seen,
                   started, reads>>

\* the tracker and the single call of the other specifications stay as they are
OthersUnchanged == UNCHANGED tvars /\ UNCHANGED fvars /\ UNCHANGED uvars

NextConc ==
    \/ (Tick /\ OthersUnchanged)
    \/ (SchedulerDue /\ OthersUnchanged)
    \/ (ForceRefresh /\ OthersUnchanged)
    \/ (\E t \in Refreshers : StepFetch(t) /\ OthersUnchanged)
    \/ (\E t \in Refreshers : StepMark(t) /\ OthersUnchanged)
    \/ (\E t \in Refreshers : StepAdd(t) /\ OthersUnchanged)
    \/ (\E t \in Refreshers : StepFilter(t) /\ OthersUnchanged)
    \/ (\E t \in Refreshers : StepPublish(t) /\ OthersUnchanged)
    \/ (\E t \in Refreshers : StepSame(t) /\ OthersUnchanged)
    \/ (\E t \in Refreshers : StepStamp(t) /\ OthersUnchanged)
    \/ (ReaderStart /\ OthersUnchanged)
    \/ (ReaderRead1 /\ OthersUnchanged)
    \/ (ReaderRead2 /\ OthersUnchanged)
    \/ (ReaderRead3 /\ OthersUnchanged)
    \/ (ReaderRead4 /\ OthersUnchanged)

SpecConc == InitConc /\ [][NextConc]_vars

(***************************************************************************)
(* SpecRace: the scheduler thread and a POST /refresh request, the loop of *)
(* lines 190-193 in two steps: the iterator over tracked_pairs.items() is  *)
(* made, then the loop runs.  A dict that changed its size in between      *)
(* makes the iterator raise RuntimeError, which the except clause of       *)
(* _update_pairlist (lines 268-269) catches.                               *)
(***************************************************************************)
\* line 190: the iterator is made; it remembers the size of the dict
StepIter(t) ==
    /\ pc[t] = "mark"
    /\ locals' = [locals EXCEPT ![t].used = Len(tracked_pairs)]
    /\ pc' = [pc EXCEPT ![t] = "marking"]
    /\ UNCHANGED <<tracked_pairs, current_pairlist, last_update, max_pairs,
                   min_pair_age_hours, clock, rpc, rkind, rnow, resp,
                   boundary, seen, started, reads>>

\* lines 190-193: the loop, or RuntimeError: dictionary changed size during
\* iteration
StepLoop(t) ==
    /\ pc[t] = "marking"
    /\ IF Len(tracked_pairs) # locals[t].used
       THEN /\ pc' = [pc EXCEPT ![t] = "except"]
            /\ UNCHANGED tracked_pairs
       ELSE /\ pc' = [pc EXCEPT ![t] = "add"]
            /\ tracked_pairs' =
                  MarkActive(tracked_pairs, locals[t].coins, locals[t].now)
    /\ UNCHANGED <<current_pairlist, last_update, max_pairs,
                   min_pair_age_hours, clock, locals, rpc, rkind, rnow, resp,
                   boundary, seen, started, reads>>

UpdatePairlistRaisesOnFailure == TRUE

\* except Exception as e: logger.error(...): _update_pairlist returns
UpdatePairlistRaises == FALSE

\* lines 268-269
StepExcept(t) ==
    /\ pc[t] = "except"
    /\ pc' = [pc EXCEPT ![t] = IF UpdatePairlistRaises THEN "raised"
                               ELSE "idle"]
    /\ locals' = [locals EXCEPT ![t] = NoLocals]
    /\ AtBoundary(ServiceState)
    /\ UNCHANGED <<tracked_pairs, current_pairlist, last_update, max_pairs,
                   min_pair_age_hours, clock, rpc, rkind, rnow, resp,
                   started, reads>>

NextRace ==
    \/ (SchedulerDue /\ OthersUnchanged)
    \/ (ForceRefresh /\ OthersUnchanged)
    \/ (\E t \in Refreshers : StepFetch(t) /\ OthersUnchanged)
    \/ (\E t \in Refreshers : StepIter(t) /\ OthersUnchanged)
    \/ (\E t \in Refreshers : StepLoop(t) /\ OthersUnchanged)
    \/ (\E t \in Refreshers : StepAdd(t) /\ OthersUnchanged)
    \/ (\E t \in Refreshers : StepFilter(t) /\ OthersUnchanged)
    \/ (\E t \in Refreshers : StepPublish(t) /\ OthersUnchanged)
    \/ (\E t \in Refreshers : StepSame(t) /\ OthersUnchanged)
    \/ (\E t \in Refreshers : StepStamp(t) /\ OthersUnchanged)
    \/ (\E t \in Refreshers : StepExcept(t) /\ OthersUnchanged)

SpecRace == InitConc /\ [][NextRace]_vars

(***************************************************************************)
(* SpecFetch: _get_current_positions applied to every outcome of the data  *)
(* source and every state of the stored record                             *)
(***************************************************************************)
FetchCoins == {"BTC", "DOGE", "HYPE"}

InitFetch ==
    /\ TrackerIdle
    /\ ServiceIdle
    /\ api \in ApiOutcomes(FetchCoins)
    /\ file \in FileStates(FetchCoins)
    /\ fetched = [raised |-> FALSE, coins |-> {}]
    /\ fpc = "call"

FetchCall ==
    /\ fpc = "call"
    /\ fetched' = GetCurrentPositions(api, file)
    /\ fpc' = "ret"
    /\ UNCHANGED <<api, file>>
    /\ UNCHANGED tvars
    /\ UNCHANGED svars

NextFetch == FetchCall

SpecFetch == InitFetch /\ [][NextFetch]_vars

(***************************************************************************)
(* SpecTrack: a tracker process fed one payload per round, stopped and     *)
(* started again now and then, its last_positions.csv damaged now and then *)
(* while it is stopped                                                     *)
(***************************************************************************)
MaxRounds == 2

WellFormed(c, sz) ==
    AssetPosition(c, "oneWay", TRUE, Num(sz), Num(10),
                  <<Num(100), Num(0), Num(50)>>, LeverageScalar(Num(2)))

\* The entries a payload can hold for a coin.
TrackEntries(c) ==
    IF c = "BTC"
    THEN {WellFormed(c, sz) : sz \in {0, 1, 4, -1}}
         \cup {[WellFormed(c, 1) EXCEPT !.leverage = LeverageDict(Num(3))],
               [WellFormed(c, 1) EXCEPT !.type = "other"],
               [WellFormed(c, 1) EXCEPT !.has_position = FALSE],
               [WellFormed(c, 1) EXCEPT !.szi = NotANumber],
               [WellFormed(c, 1) EXCEPT !.entryPx = NotANumber],
               [WellFormed(c, 0) EXCEPT !.entryPx = NotANumber],
               [WellFormed(c, 1) EXCEPT !.type = "other", !.szi = NotANumber]}
    ELSE {WellFormed(c, sz) : sz \in {0, 4}}

OptionalEntries(c) == {None} \cup {Some(e) : e \in TrackEntries(c)}

ListOfOptional(opt) == IF opt = None THEN <<>> ELSE <<CHOOSE e \in opt : TRUE>>

\* position_data: at most one entry per coin, in the order of CoinOrder
Payloads(ts) ==
    {[time |-> ts,
      assetPositions |-> ListOfOptional(b) \o ListOfOptional(e)] :
        b \in OptionalEntries("BTC"), e \in OptionalEntries("ETH")}

TrackerState ==
    [last_positions |-> last_positions,
     position_history |-> position_history,
     changes_log |-> changes_log,
     positions_file |-> positions_file,
     last_positions_file |-> last_positions_file,
     changes_file |-> changes_file,
     incomplete |-> incomplete,
     payload |-> payload,
     tpc |-> tpc]

\* PositionTracker() in an empty data directory.
InitTrack ==
    /\ TrackerIdle
    /\ FetchIdle
    /\ ServiceIdle

NewLastPositionsAtEvent(last, cur, chs) ==
    [c \in DOMAIN cur |->
        IF c \in DOMAIN last /\ \A i \in 1..Len(chs) : chs[i].coin # c
        THEN last[c] ELSE cur[c]]

NewLastPositionsKept(last, cur, chs) == last

NewLastPositionsOnlyOnChange(last, cur, chs) ==
    IF chs = <<>> THEN last ELSE cur

\* self.last_positions = deepcopy(current_positions), whatever changes is
NewLastPositions(last, cur, chs) == cur

NewChangesLogReplaced(log, chs) == chs

\* self.changes_log.extend(changes)
NewChangesLog(log, chs) == log \o chs

SavesAllAlways(chs) == TRUE

\* if changes: self._save_data() else: self._save_last_positions()
SavesAll(chs) == chs # <<>>

\* The stored files, by name.
StoreFiles == {"positions_history", "last_positions", "changes_log"}

\* What the disk does to the writes of one call: every write succeeds, or
\* the writes of some files fail, either at open() (the file stays as it
\* was) or after it (the file was truncated and its rows are lost).
DiskStates ==
    {[fails |-> {}, how |-> "denied"]}
        \cup {[fails |-> F, how |-> k] :
                 F \in {{"last_positions"}, {"changes_log"}, StoreFiles},
                 k \in {"denied", "cut"}}

WriteAllOrNothing(name, old, new, d) ==
    IF d.fails = {} THEN new ELSE old

\* One _save_* call: try: open(..., 'w') and the rows; except Exception:
\* a warning.
Write(name, old, new, d) ==
    IF name \notin d.fails THEN new
    ELSE IF d.how = "denied" THEN old
    ELSE WrittenFile(<<>>)

SaveRaisesOnFailure(d) == d.fails # {}

\* except Exception as e: print(...): no exception leaves a _save_* call
SaveRaises(d) == FALSE

MsPerHour == 3600000

\* position_data['time'] of the n-th call: one hour after the one before
RoundTime(n) == MsPerHour * n

\* track_positions(position_data), lines 369-417
TrackPositionsOn(datas, max) ==
    /\ tpc # "down"
    /\ rounds < max
    /\ \E data \in datas, now \in WallClock, d \in DiskStates :
          LET ex   == ExtractPositions(data)
              cur  == ex.positions
              chs  == DetectChanges(last_positions, cur, now)
              hist == UpdateHistory(position_history, cur, chs)
              log  == NewChangesLog(changes_log, chs)
              new  == NewLastPositions(last_positions, cur, chs)
          IN  /\ payload' = data
              /\ before' = TrackerState
              /\ rounds' = rounds + 1
              /\ IF ex.raised
                 THEN /\ tpc' = "raised"
                      /\ current_positions' = <<>>
                      /\ changes' = <<>>
                      /\ disk' = [fails |-> {}, how |-> "denied"]
                      /\ UNCHANGED <<last_positions, position_history,
                                     changes_log, positions_file,
                                     last_positions_file, changes_file,
                                     incomplete>>
                 ELSE /\ tpc' = IF SaveRaises(d) THEN "raised" ELSE "ret"
                      /\ current_positions' = cur
                      /\ changes' = chs
                      /\ position_history' = hist
                      /\ changes_log' = log
                      /\ last_positions' = new
                      /\ incomplete' = FALSE
                      /\ disk' = d
                      /\ last_positions_file' =
                            Write("last_positions", last_positions_file,
                                  SaveLastPositions(new), d)
                      /\ IF SavesAll(chs)
                         THEN /\ positions_file' =
                                    Write("positions_history", positions_file,
                                          SavePositionsHistory(hist), d)
                              /\ changes_file' =
                                    Write("changes_log", changes_file,
                                          SaveChangesLog(log), d)
                         ELSE UNCHANGED <<positions_file, changes_file>>
    /\ UNCHANGED fvars
    /\ UNCHANGED svars

TrackPositions ==
    TrackPositionsOn(Payloads(RoundTime(rounds + 1)), MaxRounds)

\* The process ends; its files stay.
Stop ==
    /\ tpc \in {"ret", "raised"}
    /\ tpc' = "down"
    /\ UNCHANGED <<last_positions, current_positions, changes, payload,
                   position_history, changes_log, positions_file,
                   last_positions_file, changes_file, before, incomplete,
                   disk, rounds>>
    /\ UNCHANGED fvars
    /\ UNCHANGED svars

\* What can become of a stored file between two runs: it can no longer be
\* opened, or one of its rows no longer converts.
Damaged(f) ==
    {[f EXCEPT !.readable = FALSE]}
        \cup {[f EXCEPT !.bad = k] : k \in 1..Len(f.rows)}

DamageLastPositions ==
    /\ tpc = "down"
    /\ last_positions_file.exists
    /\ last_positions_file.readable
    /\ last_positions_file.bad = 0
    /\ \E f \in Damaged(last_positions_file) : last_positions_file' = f
    /\ UNCHANGED <<last_positions, current_positions, changes, tpc, payload,
                   position_history, changes_log, positions_file,
                   changes_file, before, incomplete, disk, rounds>>
    /\ UNCHANGED fvars
    /\ UNCHANGED svars

\* PositionTracker() is constructed again: __init__ and _load_data, lines
\* 37-46 and 198-201.
Start ==
    /\ tpc = "down"
    /\ position_history' = LoadPositionsHistory(positions_file)
    /\ last_positions' = LoadLastPositions(last_positions_file)
    /\ changes_log' = LoadChangesLog(changes_file)
    /\ incomplete' = LoadFails(last_positions_file)
    /\ tpc' = "call"
    /\ current_positions' = <<>>
    /\ changes' = <<>>
    /\ UNCHANGED <<payload, positions_file, last_positions_file, changes_file,
                   before, disk, rounds>>
    /\ UNCHANGED fvars
    /\ UNCHANGED svars

NextTrack ==
    \/ TrackPositions
    \/ Stop
    \/ DamageLastPositions
    \/ Start

SpecTrack == InitTrack /\ [][NextTrack]_vars

(***************************************************************************)
(* SpecLedger: the tracker from an empty store, every write succeeding and *)
(* no file damaged: rounds, and restarts on what the rounds wrote          *)
(***************************************************************************)
MaxLedgerRounds == 3

\* position_data of well-formed entries: BTC absent, closed (size zero),
\* long at one of three sizes two thresholds wide or short; ETH absent or
\* long
LedgerPayloads(ts) ==
    {[time |-> ts,
      assetPositions |-> ListOfOptional(b) \o ListOfOptional(e)] :
        b \in {None} \cup {Some(WellFormed("BTC", sz)) :
                              sz \in {0, 1, 3, 5, -3}},
        e \in {None, Some(WellFormed("ETH", 4))}}

\* a round all of whose writes succeed
SoundRound ==
    /\ TrackPositionsOn(LedgerPayloads(RoundTime(rounds + 1)),
                        MaxLedgerRounds)
    /\ disk'.fails = {}

NextLedger ==
    \/ SoundRound
    \/ Stop
    \/ Start

SpecLedger == InitTrack /\ [][NextLedger]_vars

(***************************************************************************)
(* DynamicPairListService._load_historical_data                            *)
(*                                                                         *)
(* The stored history as the constructor finds it: changes_log.csv (its    *)
(* rows reduced to coin and time, in hours) and the coins of               *)
(* last_positions.csv.                                                     *)
(***************************************************************************)
HistoryRow(c, t) == [coin |-> c, time |-> t]

Later(a, b) == IF a > b THEN a ELSE b

\* lines 80-100: one row of changes_log.csv
ReplayRow(tracked, row) ==
    IF row.coin \in TrackedCoins(tracked)
    THEN [j \in 1..Len(tracked) |->
             IF tracked[j].coin = row.coin
             THEN [tracked[j] EXCEPT !.last_seen = Later(@, row.time),
                                     !.total_trades = @ + 1]
             ELSE tracked[j]]
    ELSE Append(tracked, PairInfo(row.coin, row.time, row.time, 1, FALSE))

RECURSIVE ReplayChanges(_, _, _)
ReplayChanges(tracked, rows, i) ==
    IF i > Len(rows) THEN tracked
    ELSE ReplayChanges(ReplayRow(tracked, rows[i]), rows, i + 1)

\* lines 103-111: the coins of last_positions.csv are marked active
MarkReplayedActive(tracked, active) ==
    [j \in 1..Len(tracked) |->
        [tracked[j] EXCEPT !.is_active = @ \/ tracked[j].coin \in active]]

\* lines 68-113, the body of the try when no read fails
LoadHistoricalData(h) ==
    IF ~h.changes_exists THEN <<>>
    ELSE IF h.last_exists
    THEN MarkReplayedActive(ReplayChanges(<<>>, h.rows, 1), h.active)
    ELSE ReplayChanges(<<>>, h.rows, 1)

\* datetime.fromtimestamp(timestamp / 1000), in hours
FromTimestamp(ts) == ts \div MsPerHour

\* lines 76-80 and 103-108: what the service reads of the tracker's files
HistoryOfStore(cf, lf) ==
    [changes_exists |-> cf.exists,
     rows |-> [i \in 1..Len(cf.rows) |->
                  HistoryRow(cf.rows[i].coin,
                             FromTimestamp(cf.rows[i].timestamp))],
     last_exists |-> lf.exists,
     active |-> {lf.rows[i].coin : i \in 1..Len(lf.rows)}]

\* lines 65-117 on the files of the store: a changes_log.csv that cannot be
\* opened, or a row cut short (int(row['timestamp']) raises), ends the try;
\* the except clause logs and keeps the entries made so far, none marked
\* active. A last_positions.csv that cannot be opened ends it as well; of
\* its rows only row['coin'] is read.
LoadHistoricalFilesAllOrNothing(cf, lf) ==
    IF ~cf.exists \/ ~cf.readable \/ cf.bad # 0 THEN <<>>
    ELSE IF lf.exists /\ ~lf.readable
    THEN ReplayChanges(<<>>, HistoryOfStore(cf, lf).rows, 1)
    ELSE LoadHistoricalData(HistoryOfStore(cf, lf))

LoadHistoricalFiles(cf, lf) ==
    IF ~cf.exists \/ ~cf.readable THEN <<>>
    ELSE IF cf.bad # 0
    THEN ReplayChanges(<<>>,
            SubSeq(HistoryOfStore(cf, lf).rows, 1, Converted(cf)), 1)
    ELSE IF lf.exists /\ ~lf.readable
    THEN ReplayChanges(<<>>, HistoryOfStore(cf, lf).rows, 1)
    ELSE LoadHistoricalData(HistoryOfStore(cf, lf))

(***************************************************************************)
(* DynamicPairListService._update_pairlist, run to its end                 *)
(***************************************************************************)
UpdatePairlist(tracked, cur_list, last_upd, a, f, now, cap, min_age, ord) ==
    LET coins == GetCurrentPositions(a, f).coins
        tr    == UpdateTrackedPairs(tracked, coins, now, ord)
        new   == FilterPairsByCriteria(tr, now, min_age, cap, ord)
    IN  [tracked_pairs |-> tr,
         current_pairlist |-> IF new # cur_list THEN new ELSE cur_list,
         last_update |-> IF new # cur_list THEN Some(now) ELSE last_upd,
         locals |-> [coins |-> coins, now |-> now,
                     eligible_pairs |-> EligiblePairs(tr, now, min_age),
                     new_pairlist |-> new]]

(***************************************************************************)
(* SpecRefresh: the service constructed on a stored history, then one      *)
(* _update_pairlist after another, each run to its end                     *)
(***************************************************************************)
InitClock == 1000

\* --max-pairs takes any integer
MaxPairsValues == {-1, 1, 6, 50}

\* the hours between two refreshes
Elapsed == {0, 1, 721}

RefreshCoins == {"DOGE", "HYPE"}

RefreshApis ==
    {[raises |-> TRUE, entries |-> <<>>]}
    \cup {[raises |-> FALSE,
           entries |-> [c \in T |-> [type |-> "oneWay", has_position |-> TRUE,
                                     coin |-> c, szi |-> "1.5"]]] :
            T \in SUBSET RefreshCoins}

\* last_positions.csv holds a row, so that a failed fetch falls back to it
RefreshFiles == {[kind |-> "rows", coins |-> {"HYPE"}]}

Histories ==
    {[changes_exists |-> FALSE, rows |-> <<>>,
      last_exists |-> FALSE, active |-> {}],
     [changes_exists |-> TRUE,
      rows |-> <<HistoryRow("HYPE", InitClock - 800)>>,
      last_exists |-> FALSE, active |-> {}],
     [changes_exists |-> TRUE,
      rows |-> <<HistoryRow("HYPE", InitClock - 10),
                 HistoryRow("BTC", InitClock - 8),
                 HistoryRow("HYPE", InitClock - 5)>>,
      last_exists |-> TRUE, active |-> {"HYPE"}]}

\* The locals of a refresh that did not happen.
NoRefresh ==
    [coins |-> {}, now |-> 0, eligible_pairs |-> <<>>, new_pairlist |-> <<>>]

\* The service when a refresh begins, and the locals of the refresh before.
AtStart(tracked, cur_list, last_upd, loc) ==
    [tracked_pairs |-> tracked, current_pairlist |-> cur_list,
     last_update |-> last_upd, locals |-> loc]

\* __init__, lines 44-63: the parameters, _load_historical_data and the
\* first _update_pairlist
InitRefresh ==
    /\ TrackerIdle
    /\ FetchIdle
    /\ StartupDone
    /\ max_pairs \in MaxPairsValues
    /\ min_pair_age_hours = 2
    /\ clock = InitClock
    /\ \E h \in Histories, a \in RefreshApis, f \in RefreshFiles,
          o \in SetOrders :
          LET r == UpdatePairlist(LoadHistoricalData(h), <<>>, None, a, f,
                                  InitClock, max_pairs, 2, o)
          IN  /\ tracked_pairs = r.tracked_pairs
              /\ current_pairlist = r.current_pairlist
              /\ last_update = r.last_update
              /\ locals = r.locals
              /\ boundary = AtStart(LoadHistoricalData(h), <<>>, None, NoRefresh)
    /\ pc = <<>>
    /\ rpc = "idle"
    /\ rkind = "pairlist"
    /\ rnow = 0
    /\ resp = <<>>
    /\ seen = {}
    /\ started = 0
    /\ reads = 0

\* the scheduled job or POST /refresh: _update_pairlist, lines 254-269
UpdatePairlistCall ==
    /\ serving
    /\ started < MaxRefreshes
    /\ started' = started + 1
    /\ \E d \in Elapsed, a \in RefreshApis, f \in RefreshFiles,
          o \in SetOrders :
          LET r == UpdatePairlist(tracked_pairs, current_pairlist,
                                  last_update, a, f, clock + d, max_pairs,
                                  min_pair_age_hours, o)
          IN  /\ clock' = clock + d
              /\ tracked_pairs' = r.tracked_pairs
              /\ current_pairlist' = r.current_pairlist
              /\ last_update' = r.last_update
              /\ locals' = r.locals
    /\ boundary' = AtStart(tracked_pairs, current_pairlist, last_update, locals)
    /\ UNCHANGED <<max_pairs, min_pair_age_hours, pc, rpc, rkind, rnow, resp,
                   seen, reads>>
    /\ UNCHANGED uvars
    /\ UNCHANGED tvars
    /\ UNCHANGED fvars

NextRefresh == UpdatePairlistCall

SpecRefresh == InitRefresh /\ [][NextRefresh]_vars

(***************************************************************************)
(* SpecDefaults: _update_tracked_pairs alone, from the entries the         *)
(* constructor loaded, on every outcome of the fetch and every state of    *)
(* the stored record, the static default symbols included                  *)
(***************************************************************************)
\* last_positions.csv: missing, unreadable, without rows, or with a row
DefaultsFiles == FileStates({"HYPE"})

InitDefaults ==
    /\ TrackerIdle
    /\ FetchIdle
    /\ StartupDone
    /\ max_pairs = 50
    /\ min_pair_age_hours = 2
    /\ clock = InitClock
    /\ \E h \in Histories :
          /\ tracked_pairs = LoadHistoricalData(h)
          /\ boundary = AtStart(LoadHistoricalData(h), <<>>, None, NoRefresh)
    /\ current_pairlist = <<>>
    /\ last_update = None
    /\ locals = NoRefresh
    /\ pc = <<>>
    /\ rpc = "idle"
    /\ rkind = "pairlist"
    /\ rnow = 0
    /\ resp = <<>>
    /\ seen = {}
    /\ started = 0
    /\ reads = 0

\* _update_tracked_pairs, lines 184-207
UpdateTrackedPairsCall ==
    /\ serving
    /\ started < MaxRefreshes
    /\ started' = started + 1
    /\ \E d \in Elapsed, a \in RefreshApis, f \in DefaultsFiles,
          o \in SetOrders :
          /\ api' = a
          /\ file' = f
          /\ fetched' = GetCurrentPositions(a, f)
          /\ fpc' = "ret"
          /\ clock' = clock + d
          /\ tracked_pairs' =
                UpdateTrackedPairs(tracked_pairs,
                                   GetCurrentPositions(a, f).coins,
                                   clock + d, o)
          /\ locals' = [NoRefresh EXCEPT
                           !.coins = GetCurrentPositions(a, f).coins,
                           !.now = clock + d]
    /\ boundary' = AtStart(tracked_pairs, current_pairlist, last_update, locals)
    /\ UNCHANGED <<current_pairlist, last_update, max_pairs,
                   min_pair_age_hours, pc, rpc, rkind, rnow, resp, seen, reads>>
    /\ UNCHANGED uvars
    /\ UNCHANGED tvars

NextDefaults == UpdateTrackedPairsCall

SpecDefaults == InitDefaults /\ [][NextDefaults]_vars

(***************************************************************************)
(* SpecReplay: the constructor of the service up to the end of             *)
(* _load_historical_data, on a store the tracker left                      *)
(***************************************************************************)
MaxLogRows == 3

\* one row of changes_log.csv
LoggedRow(c, n) ==
    ChangeRow(PositionChange(c, "opened_long", None, 1, None, 100,
                             RoundTime(n)))

LoggedRows ==
    UNION {[1..n -> {LoggedRow(c, k) : c \in Coins, k \in 1..3}] :
              n \in 0..MaxLogRows}

\* changes_log.csv: missing, not readable, whole, or with a row cut short
ReplayLogs ==
    {MissingFile}
        \cup {[WrittenFile(rows) EXCEPT !.readable = FALSE] :
                 rows \in LoggedRows}
        \cup UNION {{[WrittenFile(rows) EXCEPT !.bad = k] :
                        k \in 0..Len(rows)} : rows \in LoggedRows}

\* last_positions.csv: missing, or written for some coins, readable or not
ReplayRecords ==
    {MissingFile}
        \cup {[SaveLastPositions(
                  [c \in S |-> PositionSnapshot(c, 1, 10, <<100, 0, 50>>, 2,
                                                RoundTime(3))])
               EXCEPT !.readable = r] : S \in SUBSET Coins, r \in BOOLEAN}

InitReplay ==
    /\ last_positions = <<>>
    /\ current_positions = <<>>
    /\ changes = <<>>
    /\ tpc = "down"
    /\ payload = [time |-> 0, assetPositions |-> <<>>]
    /\ position_history = <<>>
    /\ changes_log = <<>>
    /\ positions_file = MissingFile
    /\ last_positions_file \in ReplayRecords
    /\ changes_file \in ReplayLogs
    /\ before = <<>>
    /\ incomplete = FALSE
    /\ disk = [fails |-> {}, how |-> "denied"]
    /\ rounds = 0
    /\ FetchIdle
    /\ NoService
    /\ config = [address |-> Some("0xACCOUNT"), strategy |-> None]
    /\ tracked_address = Some("0xACCOUNT")
    /\ serving = FALSE

\* __init__, line 62: self._load_historical_data(); boundary is the service
\* as the first refresh will find it
LoadHistoricalDataCall ==
    /\ boundary = <<>>
    /\ tracked_pairs' = LoadHistoricalFiles(changes_file, last_positions_file)
    /\ boundary' = AtStart(LoadHistoricalFiles(changes_file,
                                               last_positions_file),
                           <<>>, None, NoRefresh)
    /\ UNCHANGED <<current_pairlist, last_update, max_pairs,
                   min_pair_age_hours, clock, pc, locals, rpc, rkind, rnow,
                   resp, seen, started, reads>>
    /\ UNCHANGED uvars
    /\ UNCHANGED tvars
    /\ UNCHANGED fvars

NextReplay == LoadHistoricalDataCall

SpecReplay == InitReplay /\ [][NextReplay]_vars

(***************************************************************************)
(* SpecStartup: __main__ from the command line on: init_service, then the  *)
(* scheduled refreshes                                                     *)
(***************************************************************************)
\* --address given or not; ADDRESS_TO_TRACK_TOP of the strategy importable
\* or not
Configs ==
    [address : {None, Some("0xACCOUNT")}, strategy : {None, Some("0xSTRATEGY")}]

\* init_service, lines 338-344
ResolvedAddress(cfg) ==
    IF cfg.address # None THEN cfg.address
    ELSE IF cfg.strategy # None THEN cfg.strategy
    ELSE Some(CHANGE_ME)

InitStartup ==
    /\ TrackerIdle
    /\ FetchIdle
    /\ NoService
    /\ config \in Configs
    /\ tracked_address = None
    /\ serving = FALSE

\* __main__, lines 399-407: init_service (the constructor with its first
\* _update_pairlist, counted in started, then start_scheduler) and app.run
InitService ==
    /\ ~serving
    /\ tracked_address = None
    /\ tracked_address' = ResolvedAddress(config)
    /\ serving' = TRUE
    /\ min_pair_age_hours' = 2
    /\ clock' = InitClock
    /\ started' = 1
    /\ \E cap \in MaxPairsValues, h \in Histories, a \in RefreshApis,
          f \in RefreshFiles, o \in SetOrders :
          LET r == UpdatePairlist(LoadHistoricalData(h), <<>>, None, a, f,
                                  InitClock, cap, 2, o)
          IN  /\ max_pairs' = cap
              /\ tracked_pairs' = r.tracked_pairs
              /\ current_pairlist' = r.current_pairlist
              /\ last_update' = r.last_update
              /\ locals' = r.locals
              /\ boundary' = AtStart(LoadHistoricalData(h), <<>>, None, NoRefresh)
    /\ UNCHANGED <<config, pc, rpc, rkind, rnow, resp, seen, reads>>
    /\ UNCHANGED tvars
    /\ UNCHANGED fvars

NextStartup == InitService \/ UpdatePairlistCall

SpecStartup == InitStartup /\ [][NextStartup]_vars

(***************************************************************************)
(* SpecPrograms: one of the two programs of the repository runs, the       *)
(* tracker (scripts/track_account.py) or the service                       *)
(* (dynamic_pairlist_service.py)                                           *)
(***************************************************************************)
InitPrograms == InitTrack \/ InitRefresh

TrackerProgram == ServiceIdle /\ NextTrack

ServiceProgram == NextRefresh

NextPrograms == TrackerProgram \/ ServiceProgram

SpecPrograms == InitPrograms /\ [][NextPrograms]_vars

(***************************************************************************)
(* Properties of one round of change detection (SpecDetect)                *)
(***************************************************************************)
Returned == tpc = "ret"

InBoth == DOMAIN last_positions \cap DOMAIN current_positions

EventIdx(c) == {i \in 1..Len(changes) : changes[i].coin = c}

KindIdx(c, kinds) == {i \in EventIdx(c) : changes[i].change_type \in kinds}

SameSign(a, b) == (a > 0 /\ b > 0) \/ (a < 0 /\ b < 0)

SignFlip(a, b) == (a > 0 /\ b < 0) \/ (a < 0 /\ b > 0)

SizeDelta(c) == Abs(current_positions[c].size - last_positions[c].size)

LevDelta(c) == Abs(current_positions[c].leverage - last_positions[c].leverage)

PxDelta(c) ==
    Abs(current_positions[c].entry_price - last_positions[c].entry_price)

\* C4: a coin of the previous map that is absent from the new map yields
\* exactly one 'closed' event, with new size 0, new notional 0 and the old
\* size of the previous snapshot (not None); no other coin yields 'closed'.
C4_ClosedExactlyForVanished ==
    Returned =>
        \A c \in Coins :
            IF c \in DOMAIN last_positions \ DOMAIN current_positions
            THEN /\ Cardinality(KindIdx(c, {"closed"})) = 1
                 /\ \A i \in KindIdx(c, {"closed"}) :
                       /\ changes[i].new_size = 0
                       /\ changes[i].new_position_value = 0
                       /\ changes[i].old_size = Some(last_positions[c].size)
                       /\ changes[i].old_size # None
            ELSE KindIdx(c, {"closed"}) = {}

C4_Witness ==
    /\ Returned
    /\ \E c \in DOMAIN last_positions \ DOMAIN current_positions :
          \E d \in DOMAIN current_positions :
              /\ KindIdx(c, {"closed"}) # {}
              /\ EventIdx(d) # {}

\* C5: a coin of the new map that is absent from the previous map yields
\* exactly one event, 'opened_long' if its size is > 0 and 'opened_short'
\* otherwise, with None old size and None old notional; a coin of the
\* previous map yields no 'opened_*' event.
C5_OpenedExactlyForNew ==
    Returned =>
        \A c \in Coins :
            IF c \in DOMAIN current_positions \ DOMAIN last_positions
            THEN /\ Cardinality(EventIdx(c)) = 1
                 /\ \A i \in EventIdx(c) :
                       /\ changes[i].change_type =
                             (IF current_positions[c].size > 0
                              THEN "opened_long" ELSE "opened_short")
                       /\ changes[i].old_size = None
                       /\ changes[i].old_position_value = None
            ELSE c \in DOMAIN last_positions =>
                     KindIdx(c, {"opened_long", "opened_short"}) = {}

C5_Witness ==
    /\ Returned
    /\ \E c \in DOMAIN current_positions \ DOMAIN last_positions :
          /\ current_positions[c].size < 0
          /\ KindIdx(c, {"opened_short"}) # {}
    /\ DOMAIN last_positions # {}

\* C6 as stated: a coin of both maps whose size changes sign yields exactly
\* one event, 'flipped'.
C6_FlipAlwaysFlipped ==
    Returned =>
        \A c \in InBoth :
            SignFlip(last_positions[c].size, current_positions[c].size) =>
                /\ Cardinality(EventIdx(c)) = 1
                /\ \A i \in EventIdx(c) : changes[i].change_type = "flipped"

\* C6 amended: a coin of both maps whose size changes sign and differs by
\* more than the size threshold yields exactly one event, 'flipped', never
\* 'increased' or 'decreased'.
C6_FlipAboveThresholdFlipped ==
    Returned =>
        \A c \in InBoth :
            (/\ SignFlip(last_positions[c].size, current_positions[c].size)
             /\ SizeDelta(c) > SIZE_EPS) =>
                /\ Cardinality(EventIdx(c)) = 1
                /\ \A i \in EventIdx(c) : changes[i].change_type = "flipped"

C6_Witness ==
    /\ Returned
    /\ \E c \in InBoth :
          /\ last_positions[c].size > 0
          /\ current_positions[c].size < 0
          /\ SizeDelta(c) > SIZE_EPS
          /\ KindIdx(c, {"flipped"}) # {}

\* C7: a coin of both maps whose size differs by more than the size
\* threshold and keeps its sign yields a single event, 'increased' exactly
\* when the magnitude grew and 'decreased' otherwise.
C7_IncreasedIffMagnitudeGrew ==
    Returned =>
        \A c \in InBoth :
            (/\ SameSign(last_positions[c].size, current_positions[c].size)
             /\ SizeDelta(c) > SIZE_EPS) =>
                /\ Cardinality(EventIdx(c)) = 1
                /\ \A i \in EventIdx(c) :
                      changes[i].change_type =
                          (IF Abs(current_positions[c].size)
                                 > Abs(last_positions[c].size)
                           THEN "increased" ELSE "decreased")

C7_Witness ==
    /\ Returned
    /\ \E c \in InBoth :
          /\ last_positions[c].size = -1
          /\ current_positions[c].size = -4
          /\ KindIdx(c, {"increased"}) # {}
    /\ \E c \in InBoth :
          /\ last_positions[c].size = 4
          /\ current_positions[c].size = 1
          /\ KindIdx(c, {"decreased"}) # {}

\* C8: a coin of both maps whose size is unchanged within the size
\* threshold yields exactly one event, 'modified', when its leverage differs
\* by more than the leverage threshold or its entry price by more than the
\* entry-price threshold.
C8_ModifiedOnLeverageOrEntry ==
    Returned =>
        \A c \in InBoth :
            (/\ SizeDelta(c) <= SIZE_EPS
             /\ (LevDelta(c) > LEV_EPS \/ PxDelta(c) > PX_EPS)) =>
                /\ Cardinality(EventIdx(c)) = 1
                /\ \A i \in EventIdx(c) : changes[i].change_type = "modified"

C8_Witness ==
    /\ Returned
    /\ \E c \in InBoth :
          /\ SizeDelta(c) = SIZE_EPS
          /\ LevDelta(c) > LEV_EPS
          /\ PxDelta(c) <= PX_EPS
          /\ KindIdx(c, {"modified"}) # {}

\* C9: a coin of both maps whose size, leverage and entry price are equal
\* within their thresholds yields no event, whatever its notional value,
\* unrealized PnL and margin used.
C9_NoEventOnDrift ==
    Returned =>
        \A c \in InBoth :
            (/\ SizeDelta(c) <= SIZE_EPS
             /\ LevDelta(c) <= LEV_EPS
             /\ PxDelta(c) <= PX_EPS) => EventIdx(c) = {}

C9_Witness ==
    /\ Returned
    /\ \E c \in InBoth :
          /\ SizeDelta(c) = SIZE_EPS
          /\ LevDelta(c) = LEV_EPS
          /\ PxDelta(c) = PX_EPS
          /\ current_positions[c].position_value # last_positions[c].position_value
          /\ current_positions[c].unrealized_pnl # last_positions[c].unrealized_pnl
          /\ current_positions[c].margin_used # last_positions[c].margin_used
          /\ EventIdx(c) = {}

\* C10: the returned list holds at most one event per coin.
C10_AtMostOneEventPerCoin ==
    Returned => \A c \in Coins : Cardinality(EventIdx(c)) <= 1

C10_Witness ==
    /\ Returned
    /\ \E c \in InBoth : SizeDelta(c) > SIZE_EPS /\ LevDelta(c) > LEV_EPS
    /\ \A c \in Coins : Cardinality(EventIdx(c)) = 1

(***************************************************************************)
(* Properties of _get_current_positions (SpecFetch)                        *)
(***************************************************************************)
\* the live fetch succeeds: the call returns and every size parses
LiveSucceeds ==
    /\ ~api.raises
    /\ \A c \in DOMAIN api.entries :
          (api.entries[c].type = "oneWay" /\ api.entries[c].has_position)
              => api.entries[c].szi # "abc"

\* the coins with an open position in the payload
LiveCoins ==
    {c \in DOMAIN api.entries :
        /\ api.entries[c].type = "oneWay"
        /\ api.entries[c].has_position
        /\ api.entries[c].szi \in {"1.5", "-2"}}

\* C3 as stated: the call never raises and returns the live result when the
\* fetch succeeds, otherwise the coins of the stored last-positions record
\* when there is a readable one, otherwise the default set.
C3_StrictTierOrder ==
    fpc = "ret" =>
        /\ ~fetched.raised
        /\ fetched.coins =
              (IF LiveSucceeds THEN LiveCoins
               ELSE IF file.kind = "rows" THEN file.coins
               ELSE DefaultPopularPairs)

\* C3 amended: the call never raises and returns the live result when the
\* fetch succeeds (also when it is empty), otherwise the coins of the stored
\* last-positions record when it is readable and has at least one row,
\* otherwise (record missing, unreadable or without rows) the default set.
C3_TierOrderNonEmptyRecord ==
    fpc = "ret" =>
        /\ ~fetched.raised
        /\ fetched.coins =
              (IF LiveSucceeds THEN LiveCoins
               ELSE IF file.kind = "rows" /\ file.coins # {} THEN file.coins
               ELSE DefaultPopularPairs)

C3_Witness ==
    /\ fpc = "ret"
    /\ ~LiveSucceeds
    /\ ~api.raises
    /\ file.kind = "rows"
    /\ file.coins = {"HYPE"}
    /\ fetched = [raised |-> FALSE, coins |-> {"HYPE"}]

(***************************************************************************)
(* Properties of the threads of the service (SpecConc)                     *)
(***************************************************************************)
\* C1: the periodic refresh and the forced refresh are mutually exclusive:
\* the two threads are never both inside _update_pairlist.
C1_RefreshesMutuallyExclusive ==
    ~(pc["scheduler"] # "idle" /\ pc["refresh"] # "idle")

\* C2: the payload a reader returns is the payload of one service state,
\* the state the read began in or the state at the beginning or at the end
\* of a refresh, never a mixture.  It is judged once the refreshes that ran
\* during the read have ended.
C2_ReaderSeesOneState ==
    (rpc = "done" /\ \A t \in Refreshers : pc[t] = "idle") =>
        \E st \in seen : resp = ResponseOf(rkind, st, rnow)

(***************************************************************************)
(* Properties of the rounds of the tracker (SpecTrack)                     *)
(***************************************************************************)
Entries == {payload.assetPositions[i] : i \in 1..Len(payload.assetPositions)}

OneWayNonZero(e) ==
    e.type = "oneWay" /\ e.has_position /\ e.szi.parses /\ e.szi.val # 0

\* The tracker's fields and files are what they were when the call began.
Untouched ==
    /\ last_positions = before.last_positions
    /\ position_history = before.position_history
    /\ changes_log = before.changes_log
    /\ positions_file = before.positions_file
    /\ last_positions_file = before.last_positions_file
    /\ changes_file = before.changes_file

\* C11: after a track_positions call that returned, last_positions holds
\* exactly the snapshots of the payload's one-way, non-zero entries, field
\* by field, whether or not the round produced an event.
C11_LastEqualsExtracted ==
    tpc = "ret" =>
        /\ DOMAIN last_positions = {e.coin : e \in {x \in Entries : OneWayNonZero(x)}}
        /\ \A e \in Entries :
              OneWayNonZero(e) =>
                  last_positions[e.coin] =
                      [coin |-> e.coin, size |-> e.szi.val,
                       entry_price |-> e.entryPx.val,
                       position_value |-> e.positionValue.val,
                       unrealized_pnl |-> e.unrealizedPnl.val,
                       leverage |-> e.leverage.value.val,
                       margin_used |-> e.marginUsed.val,
                       timestamp |-> payload.time]

\* a round without events that replaced a non-empty map by a different one
C11_Witness ==
    /\ tpc = "ret"
    /\ changes = <<>>
    /\ DOMAIN last_positions # {}
    /\ DOMAIN before.last_positions # {}
    /\ last_positions # before.last_positions

\* C12: after a call that returned, every snapshot of last_positions has a
\* non-zero size and sits under its own coin, and a coin whose payload entry
\* has size zero is not in the map.
C12_NonZeroUnderOwnSymbol ==
    tpc = "ret" =>
        /\ \A c \in DOMAIN last_positions :
              last_positions[c].size # 0 /\ last_positions[c].coin = c
        /\ \A e \in Entries :
              (e.szi.parses /\ e.szi.val = 0) => e.coin \notin DOMAIN last_positions

C12_Witness ==
    /\ tpc = "ret"
    /\ \E e \in Entries :
          e.type = "oneWay" /\ e.has_position /\ e.szi.parses /\ e.szi.val = 0
           /\ e.coin \in DOMAIN before.last_positions
    /\ DOMAIN last_positions # {}

\* C13: the map _extract_positions returned has a snapshot of an entry
\* exactly when the entry is of type oneWay, has a position and its size is
\* not exactly zero.
C13_SnapshotIffOneWayNonZero ==
    tpc = "ret" =>
        \A e \in Entries :
            (/\ e.coin \in DOMAIN current_positions
             /\ current_positions[e.coin].size = e.szi.val)
                <=> OneWayNonZero(e)

\* one entry below the size threshold is kept, one of another type is not
C13_Witness ==
    /\ tpc = "ret"
    /\ \E e \in Entries :
          OneWayNonZero(e) /\ Abs(e.szi.val) < SIZE_EPS
              /\ e.coin \in DOMAIN current_positions
    /\ \E e \in Entries :
          e.szi.parses /\ e.szi.val = 0 /\ e.coin \notin DOMAIN current_positions

AnyFieldUnparsable(e) ==
    \/ ~e.szi.parses
    \/ ~e.entryPx.parses
    \/ ~e.positionValue.parses
    \/ ~e.unrealizedPnl.parses
    \/ ~e.leverage.value.parses
    \/ ~e.marginUsed.parses

\* the fields _extract_positions converts: szi of a one-way entry with a
\* position, and the other fields of such an entry when its size is not zero
ConvertedFieldUnparsable(e) ==
    /\ e.type = "oneWay"
    /\ e.has_position
    /\ \/ ~e.szi.parses
       \/ e.szi.val # 0 /\ AnyFieldUnparsable(e)

\* C14 as stated: a call whose payload has any unparsable numeric field
\* raises and leaves the tracker and its files untouched.
C14_AnyUnparsableFails ==
    (tpc \in {"ret", "raised"} /\ \E e \in Entries : AnyFieldUnparsable(e))
        => (tpc = "raised" /\ Untouched)

\* C14, amended: a call whose payload has an unparsable field among those
\* _extract_positions converts raises and leaves the tracker and its files
\* untouched.
C14_ConvertedUnparsableFails ==
    (tpc \in {"ret", "raised"}
        /\ \E e \in Entries : ConvertedFieldUnparsable(e))
        => (tpc = "raised" /\ Untouched)

\* a failed round of a tracker that holds positions, history and events
C14_Witness ==
    /\ tpc = "raised"
    /\ \E e \in Entries : ConvertedFieldUnparsable(e) /\ e.szi.parses
    /\ last_positions # <<>>
    /\ changes_log # <<>>
    /\ last_positions_file.rows # <<>>

\* C15: a round that began with the map a failed load left behind emits no
\* event and does not overwrite last_positions.csv.
C15_NoRoundOnIncompleteMap ==
    (tpc = "ret" /\ before.incomplete)
        => /\ changes = <<>>
           /\ last_positions_file = before.last_positions_file

(***************************************************************************)
(* Properties of the completed refreshes of the service (SpecRefresh)      *)
(***************************************************************************)
ElementsOf(list) == {list[i] : i \in 1..Len(list)}

NoDuplicates(list) ==
    \A i, j \in 1..Len(list) : list[i] = list[j] => i = j

BasePairs == ElementsOf(base_pairs)

TruncationApplied == Len(locals.eligible_pairs) > max_pairs

\* the tracked entries whose pair is not a base pair
TrackedNonBase ==
    {tracked_pairs[i] : i \in {j \in 1..Len(tracked_pairs) :
                                  tracked_pairs[j].pair \notin BasePairs}}

\* C16 as stated: the list the filter returned, and the published list,
\* have at most max_pairs elements and no element twice.
C16_AtMostMaxPairs ==
    /\ Len(locals.new_pairlist) <= max_pairs
    /\ NoDuplicates(locals.new_pairlist)
    /\ Len(current_pairlist) <= max_pairs
    /\ NoDuplicates(current_pairlist)

\* C16, amended: the same whenever max_pairs is not negative.
C16_AtMostMaxPairsNonNegative ==
    max_pairs >= 0 =>
        /\ Len(locals.new_pairlist) <= max_pairs
        /\ NoDuplicates(locals.new_pairlist)
        /\ Len(current_pairlist) <= max_pairs
        /\ NoDuplicates(current_pairlist)

\* a later refresh whose candidates were cut down to max_pairs
C16_Witness ==
    /\ started > 0
    /\ max_pairs >= 0
    /\ TruncationApplied
    /\ Len(current_pairlist) = max_pairs
    /\ current_pairlist = locals.new_pairlist

\* C17: when the base pairs are not more than max_pairs, every base pair is
\* in the list the filter returned.
C17_BaseAlwaysListed ==
    Len(base_pairs) <= max_pairs =>
        BasePairs \subseteq ElementsOf(locals.new_pairlist)

\* C18: when the base pairs alone are more than max_pairs, the list the
\* filter returned holds every base pair and is longer than max_pairs.
C18_BaseNotTrimmed ==
    Len(base_pairs) > max_pairs =>
        /\ BasePairs \subseteq ElementsOf(locals.new_pairlist)
        /\ Len(locals.new_pairlist) > max_pairs

\* C19: a tracked pair that is not a base pair is among the candidates, as
\* they are before the cap, exactly when (its age is at least the minimum or
\* it is active) and it was last seen at most 30 days ago, at the time of the
\* filter call.
C19_CandidateIffCriteria ==
    \A info \in TrackedNonBase :
        info.pair \in ElementsOf(locals.eligible_pairs)
            <=> /\ \/ locals.now - info.first_seen >= min_pair_age_hours
                   \/ info.is_active
                /\ locals.now - info.last_seen <= 30 * 24

\* an old inactive candidate, and a stale entry that is no candidate
C19_Witness ==
    /\ \E info \in TrackedNonBase :
          /\ ~info.is_active
          /\ locals.now - info.first_seen >= min_pair_age_hours
          /\ info.pair \in ElementsOf(locals.eligible_pairs)
    /\ \E info \in TrackedNonBase :
          /\ locals.now - info.last_seen > 30 * 24
          /\ info.pair \notin ElementsOf(locals.eligible_pairs)

\* C20: after a completed refresh no tracked non-base pair last seen more
\* than 30 days before it is published, and every tracked entry is active
\* exactly when its coin is in the position set of that refresh.
C20_NoStalePublishedActiveIsPresent ==
    /\ \A info \in TrackedNonBase :
          clock - info.last_seen > 30 * 24
              => info.pair \notin ElementsOf(current_pairlist)
    /\ \A i \in 1..Len(tracked_pairs) :
          tracked_pairs[i].is_active <=> tracked_pairs[i].coin \in locals.coins

\* a stale entry that was published by an earlier refresh and is no longer
\* active nor published
C20_Witness ==
    /\ started > 0
    /\ \E info \in TrackedNonBase :
          /\ clock - info.last_seen > 30 * 24
          /\ info.last_seen > info.first_seen
          /\ ~info.is_active
          /\ info.pair \notin ElementsOf(current_pairlist)

(***************************************************************************)
(* Properties of one refresh against the refresh before it (SpecRefresh)   *)
(* boundary is the service as the last refresh found it.                   *)
(***************************************************************************)
\* C21: a refresh changes last_update only when the set of symbols of the
\* list it computed differs from the set of symbols of the list published
\* before it.
C21_LastUpdateOnlyOnNewSymbols ==
    last_update # boundary.last_update
        => ElementsOf(locals.new_pairlist)
               # ElementsOf(boundary.current_pairlist)

\* C24: every entry tracked_pairs had when a refresh began is there after
\* it, at the same place, with the same pair, first_seen and total_trades:
\* a refresh only adds entries or changes is_active and last_seen.
C24_EntriesNeverRemoved ==
    /\ Len(tracked_pairs) >= Len(boundary.tracked_pairs)
    /\ \A i \in 1..Len(boundary.tracked_pairs) :
          /\ i <= Len(tracked_pairs)
          /\ [tracked_pairs[i] EXCEPT
                 !.is_active = boundary.tracked_pairs[i].is_active,
                 !.last_seen = boundary.tracked_pairs[i].last_seen]
               = boundary.tracked_pairs[i]

\* a later refresh applied the cap and rejected an entry as stale, and the
\* entry is still tracked
C24_Witness ==
    /\ started > 0
    /\ TruncationApplied
    /\ \E i \in 1..Len(boundary.tracked_pairs) :
          /\ clock - tracked_pairs[i].last_seen > STALE_HOURS
          /\ tracked_pairs[i].pair \notin ElementsOf(locals.eligible_pairs)
          /\ tracked_pairs[i].pair \notin ElementsOf(current_pairlist)

\* The number of change events of a coin in a stored log.
EventsIn(rows, c) == Cardinality({j \in 1..Len(rows) : rows[j].coin = c})

SamePositionSet == locals.coins = boundary.locals.coins

SecondRound ==
    /\ tpc = "ret"
    /\ before.tpc = "ret"
    /\ payload.assetPositions = before.payload.assetPositions

\* a refresh at the instant of the refresh before it, on the same position
\* set
SecondRefresh ==
    /\ serving
    /\ started > 0
    /\ locals.now = boundary.locals.now
    /\ locals.coins = boundary.locals.coins

\* C22: the second of two immediately successive rounds on the same account
\* state returns no event and leaves changes_log and position_history as
\* they were, and the second of two such refreshes publishes the symbols the
\* first published.
C22_SecondRoundIdempotent ==
    /\ SecondRound =>
          /\ changes = <<>>
          /\ changes_log = before.changes_log
          /\ position_history = before.position_history
    /\ SecondRefresh =>
          ElementsOf(current_pairlist) = ElementsOf(boundary.current_pairlist)

\* the second round found the positions the first one had logged as opened
C22_Witness ==
    /\ SecondRound
    /\ DOMAIN last_positions # {}
    /\ changes_log # <<>>
    /\ position_history # <<>>

(***************************************************************************)
(* Properties of the startup of the service (SpecStartup)                  *)
(***************************************************************************)
Unconfigured == config.address = None /\ config.strategy = None

\* C27: when no tracked-account identifier is configured, no service
\* instance is created, no scheduler is started and no pair list is
\* published.
C27_UnconfiguredNeverServes ==
    Unconfigured
        => ~serving /\ tracked_address = None /\ current_pairlist = <<>>

(***************************************************************************)
(* Properties of the store and the ledgers of the tracker (SpecTrack)      *)
(***************************************************************************)
\* The statistics the replay of a change log and a live map gives.
StatsOfState(log, last) ==
    MarkReplayedActive(
        ReplayChanges(<<>>,
            [i \in 1..Len(log) |->
                HistoryRow(log[i].coin, FromTimestamp(log[i].timestamp))], 1),
        DOMAIN last)

FullSaveDone == tpc = "ret" /\ disk.fails = {} /\ changes # <<>>

SeriesOf(hist, c) == IF c \in DOMAIN hist THEN hist[c] ELSE <<>>

HasEvent(c) == \E i \in 1..Len(changes) : changes[i].coin = c

\* C25: after a round that saved the full state, the stored change log and
\* last positions, reloaded and replayed, give the statistics the in-memory
\* change log and last positions give; so does the service's own replay of
\* the stored files.
C25_ReloadReplaysSameStats ==
    FullSaveDone =>
        /\ StatsOfState(LoadChangesLog(changes_file),
                        LoadLastPositions(last_positions_file))
              = StatsOfState(changes_log, last_positions)
        /\ LoadHistoricalData(HistoryOfStore(changes_file, last_positions_file))
              = StatsOfState(changes_log, last_positions)

\* a full save of a log of several rounds, one coin held and one closed
C25_Witness ==
    /\ FullSaveDone
    /\ Len(before.changes_log) >= 1
    /\ \E i \in 1..Len(StatsOfState(changes_log, last_positions)) :
          StatsOfState(changes_log, last_positions)[i].is_active
    /\ \E i \in 1..Len(StatsOfState(changes_log, last_positions)) :
          /\ ~StatsOfState(changes_log, last_positions)[i].is_active
          /\ StatsOfState(changes_log, last_positions)[i].total_trades = 2

\* C26: a round in which a write failed returns the events of the payload
\* and updates last_positions, position_history and changes_log as the code
\* does when the writes succeed; a call raises only when the extraction
\* does.
C26_WriteFailureNotRaised ==
    /\ (tpc = "ret" /\ disk.fails # {}) =>
          /\ current_positions = ExtractPositions(payload).positions
          /\ \A now \in WallClock :
                changes = DetectChanges(before.last_positions,
                                        current_positions, now)
          /\ last_positions = current_positions
          /\ changes_log = before.changes_log \o changes
          /\ position_history =
                UpdateHistory(before.position_history, current_positions, changes)
    /\ tpc = "raised" => ExtractPositions(payload).raised

C26_Witness ==
    /\ tpc = "ret"
    /\ disk.fails = StoreFiles
    /\ changes # <<>>
    /\ before.changes_log # <<>>
    /\ last_positions # <<>>

\* C28: after a call the previous changes_log is a prefix of the new one and
\* the entries after it are the events the call returned, in their order.
C28_ChangeLogAppendOnly ==
    /\ tpc = "ret" =>
          /\ Len(changes_log) = Len(before.changes_log) + Len(changes)
          /\ SubSeq(changes_log, 1, Len(before.changes_log)) = before.changes_log
          /\ SubSeq(changes_log, Len(before.changes_log) + 1, Len(changes_log))
                = changes
    /\ tpc = "raised" => changes_log = before.changes_log

C28_Witness ==
    /\ tpc = "ret"
    /\ Len(changes) = 2
    /\ Len(before.changes_log) >= 1

\* C29: in a round the series of a coin changes only if the coin has an
\* event, and then by the one snapshot of the round appended.
C29_HistoryOnlyOnEvent ==
    tpc = "ret" =>
        \A c \in Coins :
            SeriesOf(position_history, c) # SeriesOf(before.position_history, c)
                => /\ HasEvent(c)
                   /\ c \in DOMAIN current_positions
                   /\ SeriesOf(position_history, c) =
                         Append(SeriesOf(before.position_history, c),
                                current_positions[c])

\* a round with an event where a held coin without event gains nothing
C29_Witness ==
    /\ tpc = "ret"
    /\ changes # <<>>
    /\ \E c \in DOMAIN current_positions :
          /\ ~HasEvent(c)
          /\ SeriesOf(position_history, c) = SeriesOf(before.position_history, c)
          /\ SeriesOf(position_history, c) # <<>>
    /\ \E c \in DOMAIN current_positions :
          Len(SeriesOf(position_history, c)) >
              Len(SeriesOf(before.position_history, c))

\* C30: when the writes succeed, a round with an event leaves the three
\* files holding the in-memory state, and a round without event rewrites
\* last_positions.csv only.
C30_FullSaveOnlyOnEvent ==
    (tpc = "ret" /\ disk.fails = {}) =>
        /\ last_positions_file.exists
        /\ last_positions_file.rows = LastRows(last_positions, 1)
        /\ changes # <<>> =>
              /\ positions_file.exists
              /\ positions_file.rows = HistoryRows(position_history, 1)
              /\ changes_file.exists
              /\ changes_file.rows = ChangeRows(changes_log)
        /\ changes = <<>> =>
              /\ positions_file = before.positions_file
              /\ changes_file = before.changes_file

\* a round without event that rewrote last_positions.csv next to stored
\* tables of earlier rounds
C30_Witness ==
    /\ tpc = "ret"
    /\ disk.fails = {}
    /\ changes = <<>>
    /\ last_positions_file # before.last_positions_file
    /\ positions_file.rows # <<>>
    /\ changes_file.rows # <<>>

(***************************************************************************)
(* Properties of the timestamps of one round (SpecDetect)                  *)
(***************************************************************************)
SnapshotTimestamps ==
    {current_positions[c].timestamp : c \in DOMAIN current_positions}

\* C31: the events of one round carry one timestamp: the timestamp of a
\* snapshot of the current map when the map is not empty, else the wall
\* clock in epoch milliseconds.
C31_OneTimestampPerRound ==
    Returned =>
        /\ \A i, j \in 1..Len(changes) :
              changes[i].timestamp = changes[j].timestamp
        /\ \A i \in 1..Len(changes) :
              IF DOMAIN current_positions # {}
              THEN changes[i].timestamp \in SnapshotTimestamps
              ELSE changes[i].timestamp \in WallClock

\* a closed and an opened event in one round: the closed snapshot has the
\* timestamp of the round before
C31_Witness ==
    /\ Returned
    /\ \E i, j \in 1..Len(changes) :
          /\ changes[i].change_type = "closed"
          /\ changes[j].change_type \in {"opened_long", "opened_short"}
          /\ last_positions[changes[i].coin].timestamp
                 \notin SnapshotTimestamps

(***************************************************************************)
(* Properties of the cut of the candidates (SpecRefresh)                   *)
(***************************************************************************)
\* active before inactive, then the later last_seen, then the higher
\* total_trades
RanksAbove(a, b) ==
    \/ a.is_active /\ ~b.is_active
    \/ a.is_active = b.is_active /\ a.last_seen > b.last_seen
    \/ /\ a.is_active = b.is_active
       /\ a.last_seen = b.last_seen
       /\ a.total_trades > b.total_trades

\* the tracked entries of the candidates of the last refresh
TrackedCandidates ==
    {tracked_pairs[i] : i \in {j \in 1..Len(tracked_pairs) :
        tracked_pairs[j].pair \in ElementsOf(locals.eligible_pairs)}}

Included(info) == info.pair \in ElementsOf(locals.new_pairlist)

NoneOmittedAboveIncluded ==
    \A c, x \in TrackedCandidates :
        ~Included(c) /\ Included(x) => ~RanksAbove(c, x)

\* C32 as stated: when the candidates are more than max_pairs, the returned
\* list has max_pairs elements and no omitted tracked candidate ranks above
\* an included one.
C32_TopMaxPairs ==
    TruncationApplied =>
        /\ Len(locals.new_pairlist) = max_pairs
        /\ NoneOmittedAboveIncluded

\* C32, amended: the returned list has max_pairs elements when max_pairs is
\* not negative, and all candidates but the last -max_pairs when it is; in
\* both cases no omitted tracked candidate ranks above an included one.
C32_TopOfTheOrder ==
    TruncationApplied =>
        /\ Len(locals.new_pairlist)
              = IF max_pairs >= 0 THEN max_pairs
                ELSE IF Len(locals.eligible_pairs) + max_pairs > 0
                     THEN Len(locals.eligible_pairs) + max_pairs ELSE 0
        /\ NoneOmittedAboveIncluded

\* two inactive tracked candidates, the more recent one with fewer trades
\* included and the other one omitted
C32_Witness ==
    /\ TruncationApplied
    /\ \E c, x \in TrackedCandidates :
          /\ ~Included(c) /\ Included(x)
          /\ ~c.is_active /\ ~x.is_active
          /\ x.last_seen > c.last_seen
          /\ x.total_trades < c.total_trades

(***************************************************************************)
(* Properties of the replay of the store (SpecReplay)                      *)
(***************************************************************************)
Replayed == boundary # <<>>

StoredRows == changes_file.rows

\* the rows _load_historical_data reads before it stops
ReadRows ==
    IF ~changes_file.exists \/ ~changes_file.readable THEN <<>>
    ELSE SubSeq(StoredRows, 1, Converted(changes_file))

RowsIdx(rows, c) == {i \in 1..Len(rows) : rows[i].coin = c}

EntriesIdx(c) ==
    {i \in 1..Len(tracked_pairs) : tracked_pairs[i].coin = c}

\* one entry for c with the count, the first time and the latest time of
\* the rows of c
EntryCounts(rows, c) ==
    /\ Cardinality(EntriesIdx(c)) = 1
    /\ \A i \in EntriesIdx(c) :
          /\ tracked_pairs[i].total_trades = Cardinality(RowsIdx(rows, c))
          /\ \E f \in RowsIdx(rows, c) :
                /\ \A j \in RowsIdx(rows, c) : f <= j
                /\ tracked_pairs[i].first_seen
                       = FromTimestamp(rows[f].timestamp)
          /\ \E l \in RowsIdx(rows, c) :
                /\ \A j \in RowsIdx(rows, c) :
                      rows[j].timestamp <= rows[l].timestamp
                /\ tracked_pairs[i].last_seen
                       = FromTimestamp(rows[l].timestamp)

RecordCoins ==
    {last_positions_file.rows[i].coin :
        i \in 1..Len(last_positions_file.rows)}

\* C33 as stated: after the replay every symbol with a row in the stored
\* log has one entry with the count, first time and latest time of its
\* rows, and is active exactly when it is in the stored last-positions
\* record.
C33_ReplayCountsEveryRow ==
    Replayed =>
        \A c \in Coins :
            RowsIdx(StoredRows, c) # {} =>
                /\ EntryCounts(StoredRows, c)
                /\ \A i \in EntriesIdx(c) :
                      tracked_pairs[i].is_active <=> c \in RecordCoins

\* C33, amended: the same over the rows read before the replay stops (all
\* rows of a readable log without a cut row, none of a log that cannot be
\* opened, the rows before the first cut row otherwise); the symbols in the
\* last-positions record are active when the log was read whole and the
\* record is readable, and no symbol is active otherwise.
C33_ReplayCountsReadRows ==
    Replayed =>
        \A c \in Coins :
            IF RowsIdx(ReadRows, c) = {} THEN EntriesIdx(c) = {}
            ELSE /\ EntryCounts(ReadRows, c)
                 /\ \A i \in EntriesIdx(c) :
                       tracked_pairs[i].is_active <=>
                           /\ c \in RecordCoins
                           /\ changes_file.bad = 0
                           /\ last_positions_file.readable

\* a whole log replayed: a symbol with two rows, the latest time not in
\* the last row, active by the record, and another symbol not in the record
C33_Witness ==
    /\ Replayed
    /\ changes_file.readable /\ changes_file.bad = 0
    /\ last_positions_file.readable
    /\ \E i, j \in 1..Len(tracked_pairs) :
          /\ tracked_pairs[i].total_trades = 2
          /\ tracked_pairs[i].is_active
          /\ tracked_pairs[i].last_seen
                 > FromTimestamp(StoredRows[Len(StoredRows)].timestamp)
          /\ ~tracked_pairs[j].is_active

(***************************************************************************)
(* Properties of _update_tracked_pairs in one refresh (SpecRefresh)        *)
(***************************************************************************)
PreviouslyTracked == TrackedCoins(boundary.tracked_pairs)

\* C34: after a refresh with position set S at time t, every entry the
\* refresh found is active exactly when its coin is in S, has last_seen = t
\* when in S and its former last_seen when not, and keeps its first_seen;
\* every coin of S it did not find has one new entry with first_seen =
\* last_seen = t, total_trades = 1 and is_active true.
C34_LiveUpdate ==
    /\ \A i \in 1..Len(boundary.tracked_pairs) :
          /\ i <= Len(tracked_pairs)
          /\ tracked_pairs[i].coin = boundary.tracked_pairs[i].coin
          /\ tracked_pairs[i].is_active
                 <=> tracked_pairs[i].coin \in locals.coins
          /\ tracked_pairs[i].last_seen
                 = IF tracked_pairs[i].coin \in locals.coins
                   THEN locals.now
                   ELSE boundary.tracked_pairs[i].last_seen
          /\ tracked_pairs[i].first_seen
                 = boundary.tracked_pairs[i].first_seen
    /\ \A c \in locals.coins \ PreviouslyTracked :
          /\ Cardinality({i \in 1..Len(tracked_pairs) :
                              tracked_pairs[i].coin = c}) = 1
          /\ InfoOf(tracked_pairs, c)
                 = PairInfo(c, locals.now, locals.now, 1, TRUE)

\* a later refresh that found an active tracked coin no longer held and a
\* coin it had not tracked
C34_Witness ==
    /\ started > 0
    /\ \E j \in 1..Len(boundary.tracked_pairs) :
          /\ tracked_pairs[j].coin \notin locals.coins
          /\ boundary.tracked_pairs[j].is_active
          /\ tracked_pairs[j].last_seen < locals.now
    /\ locals.coins \ PreviouslyTracked # {}

(***************************************************************************)
(* Properties of the ledgers over the rounds (SpecLedger)                  *)
(***************************************************************************)
LoggedIdx(c) == {i \in 1..Len(changes_log) : changes_log[i].coin = c}

LatestIdx(c) == CHOOSE i \in LoggedIdx(c) : \A j \in LoggedIdx(c) : j <= i

OpenedKinds == {"opened_long", "opened_short"}

\* the round began in a process that had just loaded the store
AfterRestart == rounds >= 2 /\ tpc = "ret" /\ before.tpc = "call"

\* C35: a coin is in last_positions exactly when changes_log has an event
\* for it and the latest one is not 'closed'.
C35_LiveIffLatestNotClosed ==
    \A c \in Coins :
        c \in DOMAIN last_positions <=>
            /\ LoggedIdx(c) # {}
            /\ changes_log[LatestIdx(c)].change_type # "closed"

\* after a restart, one coin opened and closed again and another one held
C35_Witness ==
    /\ AfterRestart
    /\ \E c, d \in Coins :
          /\ Cardinality(LoggedIdx(c)) >= 2
          /\ changes_log[LatestIdx(c)].change_type = "closed"
          /\ c \notin DOMAIN last_positions
          /\ d \in DOMAIN last_positions

(***************************************************************************)
(* Properties of the order of the logged events (SpecTrack)                *)
(***************************************************************************)
EarlierIdx(c, i) == {j \in LoggedIdx(c) : j < i}

PreviousIdx(c, i) ==
    CHOOSE j \in EarlierIdx(c, i) : \A k \in EarlierIdx(c, i) : k <= j

\* C36: in changes_log an 'opened_*' event of a coin is the coin's first
\* event or directly follows a 'closed' event of the coin, and every other
\* event of a coin directly follows an event of the coin that is not
\* 'closed'.
C36_EventsWellOrdered ==
    \A c \in Coins :
        \A i \in LoggedIdx(c) :
            IF changes_log[i].change_type \in OpenedKinds
            THEN \/ EarlierIdx(c, i) = {}
                 \/ changes_log[PreviousIdx(c, i)].change_type = "closed"
            ELSE /\ EarlierIdx(c, i) # {}
                 /\ changes_log[PreviousIdx(c, i)].change_type # "closed"

(***************************************************************************)
(* Properties of the reference of the comparison (SpecLedger)              *)
(***************************************************************************)
\* the map of the round and the map of the round before it, from the two
\* payloads
ThisMap == ExtractPositions(payload).positions

PreviousMap == ExtractPositions(before.payload).positions

\* c is in both maps and moved within the three thresholds
WithinThresholds(c) ==
    /\ c \in DOMAIN ThisMap \cap DOMAIN PreviousMap
    /\ Abs(ThisMap[c].size - PreviousMap[c].size) <= SIZE_EPS
    /\ Abs(ThisMap[c].leverage - PreviousMap[c].leverage) <= LEV_EPS
    /\ Abs(ThisMap[c].entry_price - PreviousMap[c].entry_price) <= PX_EPS

\* C37: a round in which a coin moved within the thresholds since the round
\* before emits no event for the coin and logs none, whatever the size of
\* its last logged event.
C37_ComparedWithPreviousRound ==
    (tpc = "ret" /\ rounds >= 2) =>
        \A c \in Coins :
            WithinThresholds(c) =>
                /\ ~HasEvent(c)
                /\ Cardinality(LoggedIdx(c))
                       = Cardinality({i \in 1..Len(before.changes_log) :
                                         before.changes_log[i].coin = c})
                /\ last_positions[c].size = ThisMap[c].size

\* a coin that moved by the threshold in each of two rounds: no event,
\* though its size is now more than the threshold away from the one of its
\* last logged event
C37_Witness ==
    /\ tpc = "ret"
    /\ rounds = 3
    /\ \E c \in Coins :
          /\ WithinThresholds(c)
          /\ ThisMap[c].size # PreviousMap[c].size
          /\ Cardinality(LoggedIdx(c)) = 1
          /\ Abs(ThisMap[c].size - changes_log[LatestIdx(c)].new_size)
                 > SIZE_EPS

(***************************************************************************)
(* Properties of a refresh that fails (SpecRace)                           *)
(***************************************************************************)
\* the steps of a refresh before its first assignment to current_pairlist
BeforePublish == {"fetch", "mark", "marking", "add", "filter", "publish"}

\* C38: no exception leaves _update_pairlist, and a refresh that fails has
\* not assigned current_pairlist or last_update and does not assign them:
\* it fails at a step before line 261, and its steps from the failure to
\* its return leave both as they are.
C38_FailedRefreshKeepsList ==
    [][\A t \in Refreshers :
          /\ pc'[t] # "raised"
          /\ (pc'[t] = "except" /\ pc[t] # "except") => pc[t] \in BeforePublish
          /\ (pc[t] = "except" \/ pc'[t] = "except") =>
                \/ pc'[t] = pc[t]
                \/ /\ current_pairlist' = current_pairlist
                   /\ last_update' = last_update]_vars

\* a refresh has failed in its loop over tracked_pairs, and the other
\* thread, whose new entry made it fail, has just assigned current_pairlist
C38_Witness ==
    \E t, u \in Refreshers :
        /\ pc[t] = "except"
        /\ locals[t].used # Len(tracked_pairs)
        /\ pc[u] = "stamp"

(***************************************************************************)
(* Properties of the static default symbols (SpecDefaults)                 *)
(***************************************************************************)
\* the live fetch failed and the stored record is missing, unreadable or
\* without rows
NothingToFallBackOn ==
    /\ started > 0
    /\ LiveFetch(api).raised
    /\ \/ file.kind \in {"missing", "unreadable"}
       \/ file.kind = "rows" /\ file.coins = {}

\* C39: after an update whose fetch failed with no usable stored record,
\* every default symbol has an entry; one that had none before has
\* is_active and total_trades = 1, one that had an entry is active with
\* last_seen = now, and every entry of a symbol outside the default set is
\* inactive.
C39_DefaultsTreatedAsOpen ==
    NothingToFallBackOn =>
        /\ \A c \in DefaultPopularPairs :
              /\ c \in TrackedCoins(tracked_pairs)
              /\ InfoOf(tracked_pairs, c).is_active
              /\ InfoOf(tracked_pairs, c).last_seen = clock
              /\ c \notin TrackedCoins(boundary.tracked_pairs) =>
                    InfoOf(tracked_pairs, c).total_trades = 1
        /\ \A c \in TrackedCoins(tracked_pairs) \ DefaultPopularPairs :
              ~InfoOf(tracked_pairs, c).is_active

\* the record has no rows; BTC had an entry last seen earlier, ETH had
\* none, and HYPE, outside the default set, was active
C39_Witness ==
    /\ NothingToFallBackOn
    /\ file.kind = "rows"
    /\ "BTC" \in TrackedCoins(boundary.tracked_pairs)
    /\ InfoOf(boundary.tracked_pairs, "BTC").last_seen < clock
    /\ "ETH" \notin TrackedCoins(boundary.tracked_pairs)
    /\ "HYPE" \in TrackedCoins(boundary.tracked_pairs)
    /\ InfoOf(boundary.tracked_pairs, "HYPE").is_active

(***************************************************************************)
(* Properties of a lost write of changes_log.csv (SpecTrack)               *)
(***************************************************************************)
\* The tracker was started again after a returned round with events whose
\* write of changes_log failed and whose write of last_positions
\* succeeded; last_positions.csv is as that round left it.
LostEventsRestarted ==
    /\ tpc = "call"
    /\ rounds >= 1
    /\ before.tpc # "down"
    /\ ~ExtractPositions(payload).raised
    /\ DetectChanges(before.last_positions,
                     ExtractPositions(payload).positions,
                     CHOOSE now \in WallClock : TRUE) # <<>>
    /\ disk.fails = {"changes_log"}
    /\ ~LoadFails(last_positions_file)

\* C40: after such a restart the reloaded change log holds what the file
\* held before the round with events (or nothing, when the failed write
\* had emptied the file), and a round on the same assetPositions detects
\* no event.
C40_LostEventsNotRedetected ==
    [][(/\ LostEventsRestarted
        /\ rounds' = rounds + 1
        /\ payload'.assetPositions = payload.assetPositions)
       => /\ changes_log \in {LoadChangesLog(before.changes_file), <<>>}
          /\ Len(changes_log) <= Len(before.changes_log)
          /\ tpc' = "ret"
          /\ changes' = <<>>
          /\ Len(changes_log') = Len(changes_log)]_vars

\* the second round of a run, after a restart, on the assetPositions of
\* the first with a position open: the store holds the position, the
\* stored change log has no row, and the round detected nothing
C40_Witness ==
    /\ rounds = 2
    /\ tpc = "ret"
    /\ before.tpc = "call"
    /\ before.payload.assetPositions = payload.assetPositions
    /\ before.last_positions # <<>>
    /\ before.last_positions_file.rows # <<>>
    /\ before.changes_file.rows = <<>>
    /\ before.changes_log = <<>>
    /\ changes = <<>>
    /\ changes_log = <<>>

====
